---- MODULE Spec2Model ----
(***************************************************************************)
(* PII masking regex policy (package piimaskingregex): the request phase   *)
(* masks or redacts the matches of the configured detectors in the text    *)
(* extracted from the payload, the response phase restores the masked      *)
(* literals from the mapping kept in the exchange's metadata.               *)
(*                                                                         *)
(* A string is a sequence of one-character strings.  A compiled pattern is *)
(* the ordered alternation of literal words w1|w2|...|wn (a regexp the     *)
(* policy accepts as a custom entity); matching is Go's leftmost-first.    *)
(***************************************************************************)
EXTENDS Integers, Sequences, FiniteSets, TLC

(***************************************************************************)
(* Bounds of the model.                                                    *)
(***************************************************************************)
\* chunks of the vocabulary an extracted value is made of
MaxChunks == 3
\* detectors configured on one policy instance
MaxDetectors == 2
\* exchanges in flight on one policy instance
MaxExch == 2
\* items of the customPIIEntities array handed to GetPolicy
MaxCustom == 2
\* literals claimed one after the other in the first pass of one request
MaxClaims == 8
\* items of the messages array of a request body handed to the prompt decorator
MaxMessages == 2
\* pieces of a response text
MaxParts == 3
\* items of a headers array
MaxHeaders == 2

(***************************************************************************)
(* Strings.                                                                *)
(***************************************************************************)
UpperChars == {"A","B","C","D","E","F","G","H","I","J","K","L","M",
               "N","O","P","Q","R","S","T","U","V","W","X","Y","Z"}
HexChars == {"0","1","2","3","4","5","6","7","8","9","a","b","c","d","e","f"}
SpaceChars == {" "}

Sub(s, i, j) == IF j < i THEN <<>> ELSE SubSeq(s, i, j)

\* s has w at position i (1-based)
HasAt(s, w, i) == /\ i >= 1
                  /\ i + Len(w) - 1 <= Len(s)
                  /\ Sub(s, i, i + Len(w) - 1) = w

\* strings.Contains
Contains(s, w) == \E i \in 1..(Len(s) + 1) : HasAt(s, w, i)

\* strings.Index from position i on: the least j >= i with w at j, 0 if none
RECURSIVE IndexFrom(_, _, _)
IndexFrom(s, w, i) ==
    IF i + Len(w) - 1 > Len(s) THEN 0
    ELSE IF HasAt(s, w, i) THEN i
    ELSE IndexFrom(s, w, i + 1)

\* strings.ReplaceAll(s, old, new) for a non-empty old: the leftmost
\* non-overlapping occurrences, scanned from position i
RECURSIVE ReplaceFrom(_, _, _, _)
ReplaceFrom(s, old, new, i) ==
    LET j == IndexFrom(s, old, i)
    IN IF j = 0 THEN Sub(s, i, Len(s))
       ELSE Sub(s, i, j - 1) \o new \o ReplaceFrom(s, old, new, j + Len(old))

\* strings.ReplaceAll(s, "", new): new before every character and at the end
RECURSIVE Interleave(_, _, _)
Interleave(s, new, i) ==
    IF i > Len(s) THEN new
    ELSE new \o <<s[i]>> \o Interleave(s, new, i + 1)

ReplaceAll(s, old, new) ==
    IF old = <<>> THEN Interleave(s, new, 1)
    ELSE ReplaceFrom(s, old, new, 1)

\* strings.TrimSpace
RECURSIVE TrimLeft(_)
TrimLeft(s) == IF s # <<>> /\ Head(s) \in SpaceChars THEN TrimLeft(Tail(s)) ELSE s
RECURSIVE TrimRight(_)
TrimRight(s) ==
    IF s # <<>> /\ s[Len(s)] \in SpaceChars THEN TrimRight(Sub(s, 1, Len(s) - 1)) ELSE s
TrimSpace(s) == TrimRight(TrimLeft(s))

\* all orders in which the elements of a finite set can be iterated
RECURSIVE Perms(_)
Perms(S) ==
    IF S = {} THEN {<<>>}
    ELSE UNION {{<<x>> \o p : p \in Perms(S \ {x})} : x \in S}

(***************************************************************************)
(* regexp: leftmost-first matching of an ordered alternation of literals.  *)
(***************************************************************************)
\* the end (exclusive) of the match of pat that starts at i, 0 if none: the
\* first alternative that matches wins
RECURSIVE AltEnd(_, _, _, _)
AltEnd(pat, s, i, k) ==
    IF k > Len(pat) THEN 0
    ELSE IF HasAt(s, pat[k], i) THEN i + Len(pat[k])
    ELSE AltEnd(pat, s, i, k + 1)

\* re.doExecute(s, pos): the leftmost match starting at pos or later,
\* <<start, end>> with end exclusive, <<>> if there is none
RECURSIVE doExecute(_, _, _)
doExecute(pat, s, pos) ==
    IF pos > Len(s) + 1 THEN <<>>
    ELSE LET e == AltEnd(pat, s, pos, 1)
         IN IF e # 0 THEN <<pos, e>> ELSE doExecute(pat, s, pos + 1)

\* Regexp.MatchString
MatchString(pat, s) == doExecute(pat, s, 1) # <<>>

\* regexp.allMatches: the matches <<start, end>> delivered, end exclusive
RECURSIVE reAllMatches(_, _, _, _)
reAllMatches(pat, s, pos, prevMatchEnd) ==
    IF pos > Len(s) + 1 THEN <<>>
    ELSE LET m == doExecute(pat, s, pos)
         IN IF m = <<>> THEN <<>>
            ELSE LET accept == ~(m[2] = pos /\ m[1] = prevMatchEnd)
                     next == IF m[2] = pos THEN pos + 1 ELSE m[2]
                     rest == reAllMatches(pat, s, next, m[2])
                 IN IF accept THEN <<m>> \o rest ELSE rest
\* Regexp.FindAllStringIndex(s, -1)
FindAllStringIndex(pat, s) == reAllMatches(pat, s, 1, 0)
\* Regexp.FindAllString(s, -1)
FindAllString(pat, s) ==
    LET idx == FindAllStringIndex(pat, s)
    IN [k \in 1..Len(idx) |-> Sub(s, idx[k][1], idx[k][2] - 1)]

\* Regexp.ReplaceAllString(src, repl), repl free of $: regexp.replaceAll
RECURSIVE replaceAll(_, _, _, _, _)
replaceAll(pat, src, repl, searchPos, lastMatchEnd) ==
    LET a == IF searchPos > Len(src) + 1 THEN <<>> ELSE doExecute(pat, src, searchPos)
    IN IF a = <<>> THEN Sub(src, lastMatchEnd, Len(src))
       ELSE LET ins == IF a[2] > lastMatchEnd \/ a[1] = 1 THEN repl ELSE <<>>
                next == IF searchPos + 1 > a[2] THEN searchPos + 1 ELSE a[2]
            IN Sub(src, lastMatchEnd, a[1] - 1) \o ins
                   \o replaceAll(pat, src, repl, next, a[2])
ReplaceAllString(pat, src, repl) == replaceAll(pat, src, repl, 1, 1)

(***************************************************************************)
(* Constants of the policy.                                                *)
(***************************************************************************)
MetadataKeyPIIEntities == "piimaskingregex:pii_entities"
DefaultEmailEntityName == <<"E", "M", "A", "I", "L">>
DefaultPhoneEntityName == <<"P", "H", "O", "N", "E">>
DefaultSSNEntityName == <<"S", "S", "N">>
\* regexp.MustCompile of DefaultEmailRegex, DefaultPhoneRegex, DefaultSSNRegex:
\* three distinct compiled patterns, kept as opaque values (no exchange runs
\* on a policy that holds one of them)
DefaultEmailPattern == << <<"DefaultEmailRegex">> >>
DefaultPhonePattern == << <<"DefaultPhoneRegex">> >>
DefaultSSNPattern == << <<"DefaultSSNRegex">> >>
DefaultJsonPath == "$.messages"
RedactToken == <<"*", "*", "*", "*", "*">>
Quote == "\""

\* textCleanRegexCompiled.ReplaceAllString(s, ""), TextCleanRegex = ^"|"$ :
\* one leading and one trailing double quote are removed
CleanText(s) ==
    LET t == IF s # <<>> /\ Head(s) = Quote THEN Tail(s) ELSE s
    IN IF t # <<>> /\ t[Len(t)] = Quote THEN Sub(t, 1, Len(t) - 1) ELSE t

\* placeholderPattern ^\[[A-Z_]+_[0-9a-f]{4}\]$
IsPlaceholder(w) ==
    /\ Len(w) >= 8
    /\ w[1] = "[" /\ w[Len(w)] = "]"
    /\ \A i \in (Len(w) - 4)..(Len(w) - 1) : w[i] \in HexChars
    /\ w[Len(w) - 5] = "_"
    /\ \A i \in 2..(Len(w) - 6) : w[i] \in UpperChars \cup {"_"}

\* %04x
HexDigit == <<"0","1","2","3","4","5","6","7","8","9","a","b","c","d","e","f">>
RECURSIVE HexStr(_)
HexStr(n) ==
    IF n < 16 THEN <<HexDigit[n + 1]>>
    ELSE HexStr(n \div 16) \o <<HexDigit[(n % 16) + 1]>>
RECURSIVE PadZero(_, _)
PadZero(s, width) == IF Len(s) >= width THEN s ELSE PadZero(<<"0">> \o s, width)

\* fmt.Sprintf("[%s_%04x]", key, counter)
Placeholder(key, counter) ==
    <<"[">> \o key \o <<"_">> \o PadZero(HexStr(counter), 4) \o <<"]">>

(***************************************************************************)
(* maskPIIFromContent.  A Go map is iterated in an arbitrary order: order  *)
(* is the order in which the detectors are visited, originals the order in *)
(* which sort.Slice leaves the literals.                                   *)
(***************************************************************************)
\* claimMatches with the counter left as it is after an allocation
RECURSIVE claimMatchesSameCounter(_, _, _, _)
claimMatchesSameCounter(matches, key, st, i) ==
    IF i > Len(matches) THEN st
    ELSE LET match == matches[i]
         IN IF match \notin DOMAIN st.allMatches /\ ~IsPlaceholder(match)
            THEN claimMatchesSameCounter(matches, key,
                     [allMatches |-> st.allMatches @@ (match :> Placeholder(key, st.counter)),
                      counter |-> st.counter], i + 1)
            ELSE claimMatchesSameCounter(matches, key, st, i + 1)

\* claimMatches with the counter moved on by every match, claimed or not
RECURSIVE claimMatchesCountAll(_, _, _, _)
claimMatchesCountAll(matches, key, st, i) ==
    IF i > Len(matches) THEN st
    ELSE LET match == matches[i]
         IN IF match \notin DOMAIN st.allMatches /\ ~IsPlaceholder(match)
            THEN claimMatchesCountAll(matches, key,
                     [allMatches |-> st.allMatches @@ (match :> Placeholder(key, st.counter)),
                      counter |-> st.counter + 1], i + 1)
            ELSE claimMatchesCountAll(matches, key,
                     [st EXCEPT !.counter = st.counter + 1], i + 1)

\* claimMatches with a claimed match handed over to the detector at work
RECURSIVE claimMatchesLastWins(_, _, _, _)
claimMatchesLastWins(matches, key, st, i) ==
    IF i > Len(matches) THEN st
    ELSE LET match == matches[i]
         IN IF ~IsPlaceholder(match)
            THEN claimMatchesLastWins(matches, key,
                     [allMatches |-> (match :> Placeholder(key, st.counter)) @@ st.allMatches,
                      counter |-> st.counter + 1], i + 1)
            ELSE claimMatchesLastWins(matches, key, st, i + 1)

\* claimMatches without the test of the placeholder shape
RECURSIVE claimMatchesAnyShape(_, _, _, _)
claimMatchesAnyShape(matches, key, st, i) ==
    IF i > Len(matches) THEN st
    ELSE LET match == matches[i]
         IN IF match \notin DOMAIN st.allMatches
            THEN claimMatchesAnyShape(matches, key,
                     [allMatches |-> st.allMatches @@ (match :> Placeholder(key, st.counter)),
                      counter |-> st.counter + 1], i + 1)
            ELSE claimMatchesAnyShape(matches, key, st, i + 1)

\* the matches of one detector: a match is claimed unless it is already
\* claimed or has the placeholder shape
RECURSIVE claimMatches(_, _, _, _)
claimMatches(matches, key, st, i) ==
    IF i > Len(matches) THEN st
    ELSE LET match == matches[i]
         IN IF match \notin DOMAIN st.allMatches /\ ~IsPlaceholder(match)
            THEN claimMatches(matches, key,
                     [allMatches |-> st.allMatches @@ (match :> Placeholder(key, st.counter)),
                      counter |-> st.counter + 1], i + 1)
            ELSE claimMatches(matches, key, st, i + 1)

\* first pass: every detector, in the order the map yields them
RECURSIVE firstPass(_, _, _, _, _)
firstPass(content, piiEntities, order, st, k) ==
    IF k > Len(order) THEN st
    ELSE firstPass(content, piiEntities, order,
             claimMatches(FindAllString(piiEntities[order[k]], content), order[k], st, 1),
             k + 1)

FindMatches(content, piiEntities, order) ==
    firstPass(content, piiEntities, order, [allMatches |-> <<>>, counter |-> 0], 1)

\* an order left as the map yields it, without the sort
Unsorted(o) == TRUE

\* sort.Slice(originals, len(originals[i]) > len(originals[j])) on the keys of
\* the map: every order that is descending in length
SortedByLength(o) == \A i \in 1..Len(o) : \A j \in i..Len(o) : Len(o[i]) >= Len(o[j])
SortedOriginals(allMatches) == {o \in Perms(DOMAIN allMatches) : SortedByLength(o)}

\* second pass: the replacements of the first k literals of originals
RECURSIVE replacePass(_, _, _, _)
replacePass(maskedContent, originals, allMatches, k) ==
    IF k = 0 THEN maskedContent
    ELSE ReplaceAll(replacePass(maskedContent, originals, allMatches, k - 1),
                    originals[k], allMatches[originals[k]])

\* the store of the mapping without the test of its length
StoreMappingAlways(metadata, maskedPIIEntities) ==
    [k \in DOMAIN metadata \cup {MetadataKeyPIIEntities} |->
        IF k = MetadataKeyPIIEntities
        THEN [type |-> "map", map |-> maskedPIIEntities]
        ELSE metadata[k]]

\* the metadata after the store of the mapping
StoreMapping(metadata, maskedPIIEntities) ==
    IF DOMAIN maskedPIIEntities # {}
    THEN [k \in DOMAIN metadata \cup {MetadataKeyPIIEntities} |->
             IF k = MetadataKeyPIIEntities
             THEN [type |-> "map", map |-> maskedPIIEntities]
             ELSE metadata[k]]
    ELSE metadata

\* the returned string, the metadata and the mapping built
maskPIIFromContent(content, piiEntities, metadata, order, originals) ==
    IF content = <<>>
    THEN [ret |-> <<>>, metadata |-> metadata, entry |-> <<>>, stored |-> FALSE]
    ELSE LET found == FindMatches(content, piiEntities, order).allMatches
             maskedContent == replacePass(content, originals, found, Len(originals))
         IN [ret |-> IF DOMAIN found # {} THEN maskedContent ELSE <<>>,
             metadata |-> StoreMapping(metadata, found),
             entry |-> found,
             stored |-> DOMAIN found # {}]

(***************************************************************************)
(* redactPIIFromContent                                                    *)
(***************************************************************************)
RECURSIVE redactPass(_, _, _, _)
redactPass(maskedContent, piiEntities, order, k) ==
    IF k = 0 THEN [content |-> maskedContent, foundAndMasked |-> FALSE]
    ELSE LET prev == redactPass(maskedContent, piiEntities, order, k - 1)
             pattern == piiEntities[order[k]]
         IN IF MatchString(pattern, prev.content)
            THEN [content |-> ReplaceAllString(pattern, prev.content, RedactToken),
                  foundAndMasked |-> TRUE]
            ELSE prev

redactPIIFromContent(content, piiEntities, order) ==
    IF content = <<>> THEN <<>>
    ELSE LET r == redactPass(content, piiEntities, order, Len(order))
         IN IF r.foundAndMasked THEN r.content ELSE <<>>

(***************************************************************************)
(* restorePIIInResponse: the entries of the map in the order the map       *)
(* yields them.                                                            *)
(***************************************************************************)
RECURSIVE restorePass(_, _, _, _)
restorePass(content, maskedPIIEntities, order, k) ==
    IF k = 0 THEN content
    ELSE LET prev == restorePass(content, maskedPIIEntities, order, k - 1)
             original == order[k]
             placeholder == maskedPIIEntities[original]
         IN IF Contains(prev, placeholder)
            THEN ReplaceAll(prev, placeholder, original)
            ELSE prev

restorePIIInResponse(originalContent, maskedPIIEntities, order) ==
    IF DOMAIN maskedPIIEntities = {} THEN originalContent
    ELSE restorePass(originalContent, maskedPIIEntities, order, Len(order))

(***************************************************************************)
(* updatePayloadWithMaskedContent.  A payload is a JSON object that holds  *)
(* text at the JSONPath (kind "json"), or bytes that are no such object;   *)
(* setOk is the outcome of utils.SetValueAtJSONPath and json.Marshal.      *)
(* Bytes of kind "notobject" are those from which the extraction returns a *)
(* text although json.Unmarshal does not read them as a JSON object.       *)
(***************************************************************************)
updatePayloadWithMaskedContent(originalPayload, modifiedContent, jsonPath, setOk) ==
    IF jsonPath = "" \/ originalPayload.kind # "json"
    THEN [kind |-> "raw", text |-> modifiedContent]
    ELSE IF ~setOk THEN originalPayload
    ELSE [originalPayload EXCEPT !.text = modifiedContent]

(***************************************************************************)
(* parseParams.  A value of the params map is absent, a bool, a string or  *)
(* a value of another type.  customPIIEntities is absent, an array of      *)
(* items, a string (parses says whether json.Unmarshal reads it as an      *)
(* array of objects, items what it reads) or a value of another type.      *)
(***************************************************************************)
Absent == [t |-> "absent", b |-> FALSE, s |-> <<>>]
Bool(b) == [t |-> "bool", b |-> b, s |-> <<>>]
Str(s) == [t |-> "string", b |-> FALSE, s |-> s]
Other == [t |-> "other", b |-> FALSE, s |-> <<>>]

\* the value under jsonPath
NoPath == [t |-> "absent", s |-> ""]
Path(p) == [t |-> "string", s |-> p]
NotPath == [t |-> "other", s |-> ""]

\* an item of customPIIEntities: an object with its two fields, or no object
Object(piiEntity, piiRegex) == [obj |-> TRUE, piiEntity |-> piiEntity, piiRegex |-> piiRegex]
NotObject == [obj |-> FALSE, piiEntity |-> Absent, piiRegex |-> Absent]

NoCustom == [t |-> "absent", parses |-> FALSE, items |-> <<>>]
NotCustom == [t |-> "other", parses |-> FALSE, items |-> <<>>]
Array(items) == [t |-> "array", parses |-> FALSE, items |-> items]
JSONString(items) == [t |-> "string", parses |-> TRUE, items |-> items]
BadJSONString == [t |-> "string", parses |-> FALSE, items |-> <<>>]

\* ^[A-Z_]+$
IsEntityName(n) == n # <<>> /\ \A i \in 1..Len(n) : n[i] \in UpperChars \cup {"_"}

\* regexp.Compile of a source made of literal characters, characters escaped
\* by a backslash, | between alternatives, and ( that opens a group never
\* closed (a parse error)
RECURSIVE compileFrom(_, _, _, _)
compileFrom(src, i, alts, cur) ==
    IF i > Len(src) THEN [ok |-> TRUE, pat |-> Append(alts, cur)]
    ELSE IF src[i] = "(" THEN [ok |-> FALSE, pat |-> <<>>]
    ELSE IF src[i] = "|" THEN compileFrom(src, i + 1, Append(alts, cur), <<>>)
    ELSE IF src[i] = "\\"
    THEN IF i = Len(src) THEN [ok |-> FALSE, pat |-> <<>>]
         ELSE compileFrom(src, i + 2, alts, Append(cur, src[i + 1]))
    ELSE compileFrom(src, i + 1, alts, Append(cur, src[i]))
Compile(src) == compileFrom(src, 1, <<>>, <<>>)

\* the validation loop over the custom entities, from item i on
RECURSIVE validateEntities(_, _, _)
validateEntities(piiEntitiesArray, piiEntities, i) ==
    IF i > Len(piiEntitiesArray) THEN [err |-> "nil", piiEntities |-> piiEntities]
    ELSE LET piiEntity == piiEntitiesArray[i].piiEntity
             piiRegex == piiEntitiesArray[i].piiRegex
             compiledPattern == Compile(piiRegex.s)
         IN IF piiEntity.t # "string" \/ piiEntity.s = <<>>
            THEN [err |-> "piiEntity is required and must be a non-empty string",
                  piiEntities |-> piiEntities]
            ELSE IF ~IsEntityName(piiEntity.s)
            THEN [err |-> "piiEntity must match ^[A-Z_]+$", piiEntities |-> piiEntities]
            ELSE IF piiRegex.t # "string" \/ piiRegex.s = <<>>
            THEN [err |-> "piiRegex is required and must be a non-empty string",
                  piiEntities |-> piiEntities]
            ELSE IF ~compiledPattern.ok
            THEN [err |-> "piiRegex is invalid", piiEntities |-> piiEntities]
            ELSE IF piiEntity.s \in DOMAIN piiEntities
            THEN [err |-> "duplicate piiEntity", piiEntities |-> piiEntities]
            ELSE validateEntities(piiEntitiesArray,
                     piiEntities @@ (piiEntity.s :> compiledPattern.pat), i + 1)

\* the customPIIEntities parameter
parseCustomPIIEntities(piiEntitiesRaw) ==
    IF piiEntitiesRaw.t = "absent" THEN [err |-> "nil", piiEntities |-> <<>>]
    ELSE IF piiEntitiesRaw.t = "string"
    THEN IF ~piiEntitiesRaw.parses
         THEN [err |-> "error unmarshaling PII entities", piiEntities |-> <<>>]
         ELSE validateEntities(piiEntitiesRaw.items, <<>>, 1)
    ELSE IF piiEntitiesRaw.t = "array"
    THEN IF \E idx \in 1..Len(piiEntitiesRaw.items) : ~piiEntitiesRaw.items[idx].obj
         THEN [err |-> "customPIIEntities[idx] must be an object", piiEntities |-> <<>>]
         ELSE validateEntities(piiEntitiesRaw.items, <<>>, 1)
    ELSE [err |-> "customPIIEntities must be an array or JSON string", piiEntities |-> <<>>]

parseBoolParam(p, key) ==
    IF p[key].t = "absent" THEN [val |-> FALSE, err |-> "nil"]
    ELSE IF p[key].t # "bool" THEN [val |-> FALSE, err |-> "must be a boolean"]
    ELSE [val |-> p[key].b, err |-> "nil"]

\* a built-in toggle that replaces a custom entity of its name
enableBuiltInOverwrite(piiEntities, enable, name, pattern) ==
    IF ~enable THEN [err |-> "nil", piiEntities |-> piiEntities]
    ELSE [err |-> "nil",
          piiEntities |-> [n \in DOMAIN piiEntities \cup {name} |->
                              IF n = name THEN pattern ELSE piiEntities[n]]]

\* if enableEmail { ... }, and the same for phone and ssn
enableBuiltIn(piiEntities, enable, name, pattern) ==
    IF ~enable THEN [err |-> "nil", piiEntities |-> piiEntities]
    ELSE IF name \in DOMAIN piiEntities
    THEN [err |-> "duplicate piiEntity", piiEntities |-> piiEntities]
    ELSE [err |-> "nil", piiEntities |-> piiEntities @@ (name :> pattern)]

\* parseParams without the test of the number of detectors
acceptNoDetector(piiEntities) == "nil"

\* if len(piiEntities) == 0
requireDetector(piiEntities) ==
    IF DOMAIN piiEntities = {} THEN "at least one PII detector must be configured"
    ELSE "nil"

\* the zero value of PIIMaskingRegexPolicyParams
ZeroParams == [PIIEntities |-> <<>>, JsonPath |-> "", RedactPII |-> FALSE]

\* err is the error returned ("nil" if none), result the struct returned
parseParams(p) ==
    LET result == [ZeroParams EXCEPT !.JsonPath = DefaultJsonPath]
        custom == parseCustomPIIEntities(p.customPIIEntities)
        enableEmail == parseBoolParam(p, "email")
        enablePhone == parseBoolParam(p, "phone")
        enableSSN == parseBoolParam(p, "ssn")
        withEmail == enableBuiltIn(custom.piiEntities, enableEmail.val,
                                   DefaultEmailEntityName, DefaultEmailPattern)
        withPhone == enableBuiltIn(withEmail.piiEntities, enablePhone.val,
                                   DefaultPhoneEntityName, DefaultPhonePattern)
        withSSN == enableBuiltIn(withPhone.piiEntities, enableSSN.val,
                                 DefaultSSNEntityName, DefaultSSNPattern)
        withEntities == [result EXCEPT !.PIIEntities = withSSN.piiEntities]
        withPath == [withEntities EXCEPT !.JsonPath =
                        IF p.jsonPath.t = "string" THEN p.jsonPath.s ELSE @]
        withRedact == [withPath EXCEPT !.RedactPII =
                          IF p.redactPII.t = "bool" THEN p.redactPII.b ELSE @]
    IN IF custom.err # "nil" THEN [err |-> custom.err, result |-> result]
       ELSE IF enableEmail.err # "nil" THEN [err |-> enableEmail.err, result |-> result]
       ELSE IF enablePhone.err # "nil" THEN [err |-> enablePhone.err, result |-> result]
       ELSE IF enableSSN.err # "nil" THEN [err |-> enableSSN.err, result |-> result]
       ELSE IF withEmail.err # "nil" THEN [err |-> withEmail.err, result |-> result]
       ELSE IF withPhone.err # "nil" THEN [err |-> withPhone.err, result |-> result]
       ELSE IF withSSN.err # "nil" THEN [err |-> withSSN.err, result |-> result]
       ELSE IF requireDetector(withSSN.piiEntities) # "nil"
       THEN [err |-> requireDetector(withSSN.piiEntities), result |-> result]
       ELSE IF p.jsonPath.t \notin {"absent", "string"}
       THEN [err |-> "jsonPath must be a string", result |-> withEntities]
       ELSE IF p.redactPII.t \notin {"absent", "bool"}
       THEN [err |-> "redactPII must be a boolean", result |-> withPath]
       ELSE [err |-> "nil", result |-> withRedact]

(***************************************************************************)
(* Inputs.                                                                 *)
(***************************************************************************)
\* a placeholder-shaped word, as a masked text that re-enters carries it
PH == <<"[", "E", "_", "0", "0", "0", "0", "]">>

\* customPIIEntities: piiEntity -> piiRegex
EntitySources ==
    (<<"E">> :> <<"a", "b", "|", "b">>) @@                              \* ab|b
    (<<"D">> :> <<"b", "0", "|", "0", "|", "b">>) @@                    \* b0|0|b
    (<<"R">> :> <<"\\", "[", "E", "_", "0", "0", "0", "0", "\\", "]">>)  \* \[E_0000\]

\* piiEntity -> compiled piiRegex
EntityPool == [n \in DOMAIN EntitySources |-> Compile(EntitySources[n]).pat]

DetectorSets == {[n \in T |-> EntityPool[n]] :
                    T \in {U \in SUBSET DOMAIN EntityPool :
                              Cardinality(U) >= 1 /\ Cardinality(U) <= MaxDetectors}}

\* the parameters of a constructed policy
Configs == {[PIIEntities |-> d, JsonPath |-> "$.messages", RedactPII |-> r] :
               d \in DetectorSets, r \in BOOLEAN}

\* a params map from which GetPolicy constructs the policy of parameters c
RawOf(c) ==
    LET names == CHOOSE o \in Perms(DOMAIN c.PIIEntities) : TRUE
    IN [customPIIEntities |->
            Array([k \in 1..Len(names) |->
                      Object(Str(names[k]), Str(EntitySources[names[k]]))]),
        email |-> Absent, phone |-> Absent, ssn |-> Absent,
        jsonPath |-> NoPath, redactPII |-> Bool(c.RedactPII)]

\* no params map: the masking policy is not configured
NoRawParams ==
    [customPIIEntities |-> NoCustom, email |-> Absent, phone |-> Absent, ssn |-> Absent,
     jsonPath |-> NoPath, redactPII |-> Absent]

\* the params maps handed to GetPolicy: well-formed and ill-formed items,
\* toggles and options
InvalidSource == <<"(">>
CustomItems ==
    {NotObject,
     Object(Other, Str(EntitySources[<<"E">>])),
     Object(Str(<<>>), Str(EntitySources[<<"E">>])),
     Object(Str(<<"e">>), Str(EntitySources[<<"E">>])),
     Object(Str(<<"E">>), Other),
     Object(Str(<<"E">>), Str(<<>>))}
    \cup {Object(Str(n), Str(src)) :
             n \in {DefaultEmailEntityName, <<"E">>},
             src \in {InvalidSource, EntitySources[<<"E">>]}}
RECURSIVE ItemLists(_)
ItemLists(n) ==
    IF n = 0 THEN {<<>>}
    ELSE LET L == ItemLists(n - 1) IN L \cup {Append(l, i) : l \in L, i \in CustomItems}
CustomValues ==
    {NoCustom, NotCustom, BadJSONString}
    \cup {Array(l) : l \in ItemLists(MaxCustom)}
    \cup {JSONString(l) : l \in {m \in ItemLists(1) : \A k \in 1..Len(m) : m[k].obj}}
PhoneSSNValues ==
    {<<Absent, Absent>>, <<Bool(TRUE), Absent>>, <<Absent, Bool(TRUE)>>,
     <<Other, Absent>>, <<Absent, Other>>}
OptionValues ==
    {<<NoPath, Absent>>, <<Path("$.data"), Bool(TRUE)>>, <<Path(""), Bool(FALSE)>>,
     <<NotPath, Absent>>, <<NoPath, Other>>}
RawParams ==
    {[customPIIEntities |-> c, email |-> e, phone |-> ps[1], ssn |-> ps[2],
      jsonPath |-> o[1], redactPII |-> o[2]] :
        c \in CustomValues, e \in {Absent, Bool(TRUE), Bool(FALSE), Other},
        ps \in PhoneSSNValues, o \in OptionValues}

Vocabulary == {<<"a">>, <<"b">>, <<"0">>, PH}
RECURSIVE Texts(_)
Texts(n) ==
    IF n = 0 THEN {<<>>}
    ELSE LET T == Texts(n - 1) IN T \cup {t \o c : t \in T, c \in Vocabulary}

NilPayload == [kind |-> "nil", text |-> <<>>]
BadPayload == [kind |-> "bad", text |-> <<>>]
Payloads == {NilPayload, BadPayload} \cup {[kind |-> "json", text |-> t] : t \in Texts(MaxChunks)}

\* the metadata of an exchange as the pipeline hands it over: another key, and
\* possibly a value already under the key of the policy
FreshMetadata == ("other" :> [type |-> "string", map |-> <<>>])
StaleMap == (<<"a">> :> PH)
InitialMetadata ==
    {FreshMetadata,
     FreshMetadata @@ (MetadataKeyPIIEntities :> [type |-> "map", map |-> StaleMap]),
     FreshMetadata @@ (MetadataKeyPIIEntities :> [type |-> "string", map |-> <<>>])}

Exch == 1..MaxExch

VARIABLES
    rawParams,  \* the params map handed to GetPolicy
    policyErr,  \* the error GetPolicy returned ("nil" if none), "none" before
    params,     \* p.params of the policy instance, shared by all exchanges
    pc,         \* per exchange: "off", "new", "requested", "done"
    payload,    \* per exchange: ctx.Body of the request
    metadata,   \* per context: ctx.Metadata
    req,        \* per exchange: what OnRequest computed and returned
    resp,       \* per exchange: what OnResponse received, looked up and returned
    alloc,      \* the first pass of one request, literal by literal: the
                \* detector at work, the counter, the placeholder last built
    decorator,  \* prompt decorator: p.params, the request body and what
                \* OnRequest returned
    restorer,   \* one call of restorePIIInResponse: the response text, the
                \* map, the order of iteration and the text returned
    removeHeaders \* remove headers: the params and what OnRequest and
                \* OnResponse returned

vars == <<rawParams, policyErr, params, pc, payload, metadata, req, resp, alloc, decorator, restorer,
                 removeHeaders>>

NoReq == [kind |-> "none", body |-> NilPayload, extractedValue |-> <<>>,
          modifiedContent |-> <<>>, order |-> <<>>, originals |-> <<>>,
          entry |-> <<>>, wrote |-> FALSE, setOk |-> FALSE]
NoLookup == [exists |-> FALSE, type |-> "none", map |-> <<>>]
NoResp == [kind |-> "none", body |-> <<>>, payload |-> NilPayload,
           lookup |-> NoLookup, order |-> <<>>]

NoAlloc == [on |-> FALSE, key |-> <<>>, start |-> 0, counter |-> 0, placeholder |-> <<>>]

\* a handler that consumes the entries of the map it ranges over
ParamsCleared(p) == [p EXCEPT !.PIIEntities = <<>>]

\* p.params after a call of OnRequest or OnResponse: the handlers assign no
\* field of p.params, and maskPIIFromContent and redactPIIFromContent, which
\* are handed the map p.params.PIIEntities itself, only range over it
ParamsAfter(p) == p

\* one metadata container shared by every exchange
SharedMetadata(e) == 1

\* the metadata container that belongs to the context of exchange e
MetadataOf(e) == e

(***************************************************************************)
(* GetPolicy: p.params is set when parseParams returns no error; with an   *)
(* error no policy is returned.                                            *)
(***************************************************************************)
GetPolicy ==
    /\ policyErr = "none"
    /\ LET r == parseParams(rawParams)
       IN /\ policyErr' = r.err
          /\ params' = IF r.err = "nil" THEN r.result ELSE params
    /\ UNCHANGED <<rawParams, pc, payload, metadata, req, resp, alloc, decorator, restorer,
                 removeHeaders>>

(***************************************************************************)
(* OnRequest                                                               *)
(***************************************************************************)
\* an extraction error that lets the request pass unmodified
passOnError(reason) == [NoReq EXCEPT !.kind = "pass"]

\* the ImmediateResponse (status 500) returned for an error
buildErrorResponse(reason) == [NoReq EXCEPT !.kind = "error"]

\* RequestAction without the test for an empty modified content
RequestActionNoEmptyTest(r, originalPayload, jsonPath, setOk) ==
    IF r.modifiedContent # r.extractedValue
    THEN [r EXCEPT !.kind = "body",
                   !.setOk = setOk,
                   !.body = updatePayloadWithMaskedContent(
                                originalPayload, r.modifiedContent, jsonPath, setOk)]
    ELSE [r EXCEPT !.kind = "pass"]

\* the action returned for a modified content
RequestAction(r, originalPayload, jsonPath, setOk) ==
    IF r.modifiedContent # <<>> /\ r.modifiedContent # r.extractedValue
    THEN [r EXCEPT !.kind = "body",
                   !.setOk = setOk,
                   !.body = updatePayloadWithMaskedContent(
                                originalPayload, r.modifiedContent, jsonPath, setOk)]
    ELSE [r EXCEPT !.kind = "pass"]

\* a body kept by the policy instance from the first request it handled
FirstRequestBody(e) == payload[CHOOSE x \in Exch : \A y \in Exch : x <= y]

\* payload := ctx.Body.Content, ctx the context of the request at hand
RequestBody(e) == payload[e]

OnRequest(e) ==
    /\ pc[e] = "new"
    /\ \E order \in Perms(DOMAIN params.PIIEntities), setOk \in BOOLEAN :
         LET pay == RequestBody(e)
             md == metadata[MetadataOf(e)]
             extractedValue == TrimSpace(CleanText(pay.text))
         IN IF DOMAIN params.PIIEntities = {} \/ pay.kind = "nil"
            THEN /\ req' = [req EXCEPT ![e] = [NoReq EXCEPT !.kind = "pass"]]
                 /\ UNCHANGED metadata
            ELSE IF pay.kind = "bad"
            THEN /\ req' = [req EXCEPT ![e] =
                                buildErrorResponse("error extracting value from JSONPath")]
                 /\ UNCHANGED metadata
            ELSE IF params.RedactPII
            THEN /\ req' = [req EXCEPT ![e] = RequestAction(
                                [NoReq EXCEPT
                                    !.extractedValue = extractedValue,
                                    !.order = order,
                                    !.modifiedContent = redactPIIFromContent(
                                        extractedValue, params.PIIEntities, order)],
                                pay, params.JsonPath, setOk)]
                 /\ UNCHANGED metadata
            ELSE \E originals \in SortedOriginals(
                        FindMatches(extractedValue, params.PIIEntities, order).allMatches) :
                   LET m == maskPIIFromContent(extractedValue, params.PIIEntities,
                                               md, order, originals)
                   IN /\ req' = [req EXCEPT ![e] = RequestAction(
                                    [NoReq EXCEPT
                                        !.extractedValue = extractedValue,
                                        !.order = order,
                                        !.originals = IF extractedValue = <<>> THEN <<>>
                                                      ELSE originals,
                                        !.entry = m.entry,
                                        !.wrote = m.stored,
                                        !.modifiedContent = m.ret],
                                    pay, params.JsonPath, setOk)]
                      /\ metadata' = [metadata EXCEPT ![MetadataOf(e)] = m.metadata]
    /\ pc' = [pc EXCEPT ![e] = "requested"]
    /\ params' = ParamsAfter(params)
    /\ UNCHANGED <<rawParams, policyErr, payload, resp, alloc, decorator, restorer,
                 removeHeaders>>

(***************************************************************************)
(* OnResponse.  The response carries the text that went upstream, or a     *)
(* text with a placeholder of its own, or no body.                         *)
(***************************************************************************)
UpstreamText(e) == IF req[e].kind = "body" THEN req[e].body.text ELSE payload[e].text

ResponsePayloads(e) ==
    {NilPayload, [kind |-> "raw", text |-> UpstreamText(e)], [kind |-> "raw", text |-> PH]}

Lookup(md) ==
    IF MetadataKeyPIIEntities \in DOMAIN md
    THEN [exists |-> TRUE, type |-> md[MetadataKeyPIIEntities].type,
          map |-> md[MetadataKeyPIIEntities].map]
    ELSE NoLookup

\* a Body returned whatever the restored content is
AlwaysBody(restoredContent, payloadText) == "body"

\* if restoredContent != string(payload): modifications with a Body, empty
\* modifications otherwise
ResponseKind(restoredContent, payloadText) ==
    IF restoredContent # payloadText THEN "body" ELSE "pass"

\* OnResponse without the test of redactPII
NeverSkipsRestore(p) == FALSE

\* if redactPII is true, no restoration is needed
RedactSkipsRestore(p) == p.RedactPII

OnResponse(e) ==
    /\ pc[e] = "requested"
    /\ req[e].kind # "error"
    /\ \E rp \in ResponsePayloads(e) :
         LET maskedPII == Lookup(metadata[MetadataOf(e)])
             r == [NoResp EXCEPT !.kind = "pass", !.payload = rp]
         IN IF RedactSkipsRestore(params) THEN resp' = [resp EXCEPT ![e] = r]
            ELSE IF ~maskedPII.exists \/ maskedPII.type # "map" \/ rp.kind = "nil"
            THEN resp' = [resp EXCEPT ![e] = [r EXCEPT !.lookup = maskedPII]]
            ELSE \E order \in Perms(DOMAIN maskedPII.map) :
                   LET restoredContent ==
                           restorePIIInResponse(rp.text, maskedPII.map, order)
                   IN resp' = [resp EXCEPT ![e] =
                                 [r EXCEPT !.lookup = maskedPII,
                                           !.order = order,
                                           !.body = restoredContent,
                                           !.kind = ResponseKind(restoredContent,
                                                                 rp.text)]]
    /\ pc' = [pc EXCEPT ![e] = "done"]
    /\ params' = ParamsAfter(params)
    /\ UNCHANGED <<rawParams, policyErr, payload, metadata, req, alloc, decorator, restorer,
                 removeHeaders>>

(***************************************************************************)
(* The first pass of maskPIIFromContent, one claimed literal at a time: a  *)
(* match that is not yet in allMatches and has not the placeholder shape   *)
(* gets the placeholder of the counter, and the counter goes up by one.    *)
(* Of the map only the entry just added is kept.                           *)
(***************************************************************************)
FreshLiteral == <<"a">>

ClaimMatch ==
    /\ alloc.on
    /\ alloc.counter < alloc.start + MaxClaims
    /\ LET st == claimMatches(<<FreshLiteral>>, alloc.key,
                              [allMatches |-> <<>>, counter |-> alloc.counter], 1)
       IN alloc' = [alloc EXCEPT !.counter = st.counter,
                                 !.placeholder = st.allMatches[FreshLiteral]]
    /\ UNCHANGED <<rawParams, policyErr, params, pc, payload, metadata, req, resp, decorator, restorer,
                 removeHeaders>>

(***************************************************************************)
(* Prompt decorator (package promptdecorator).  A JSON value is a string,  *)
(* an array of items or a value of another type; an item of an array is a  *)
(* JSON object with a role and a content, or no object.  The request body  *)
(* is a JSON object with the value of its field messages.                  *)
(***************************************************************************)
JString(s) == [t |-> "string", s |-> s, items |-> <<>>]
JArray(items) == [t |-> "array", s |-> <<>>, items |-> items]
JOther == [t |-> "other", s |-> <<>>, items |-> <<>>]
JAbsent == [t |-> "absent", s |-> <<>>, items |-> <<>>]

Message(role, content) == [map |-> TRUE, role |-> role, content |-> content]
NotMessage == [map |-> FALSE, role |-> "", content |-> JAbsent]

defaultTextDecorationJSONPath == "$.messages[-1].content"
defaultMessagesDecorationJSONPath == "$.messages"

DecoratorError(reason) == [kind |-> "error", reason |-> reason, messages |-> JAbsent]
DecoratorBody(messages) == [kind |-> "body", reason |-> "", messages |-> messages]
NoDecoratorAction == [kind |-> "none", reason |-> "", messages |-> JAbsent]

\* utils.ExtractValueFromJsonpath for the two default paths: the value of the
\* field messages, or the content of the last item of the array messages
ExtractValueFromJsonpath(messages, jsonPath) ==
    IF jsonPath = defaultMessagesDecorationJSONPath
    THEN [err |-> messages.t = "absent", value |-> messages]
    ELSE IF /\ messages.t = "array"
            /\ messages.items # <<>>
            /\ messages.items[Len(messages.items)].map
            /\ messages.items[Len(messages.items)].content.t # "absent"
    THEN [err |-> FALSE, value |-> messages.items[Len(messages.items)].content]
    ELSE [err |-> TRUE, value |-> JAbsent]

\* updateStringAtPath and updateArrayAtPath for the two default paths:
\* navigatePath to the parent, setValueAtPath of the final key, json.Marshal
updateAtPath(messages, jsonPath, value) ==
    IF jsonPath = defaultMessagesDecorationJSONPath
    THEN DecoratorBody(value)
    ELSE IF messages.t # "array" \/ messages.items = <<>>
    THEN DecoratorError("Error navigating JSONPath")
    ELSE IF ~messages.items[Len(messages.items)].map
    THEN DecoratorError("Error updating JSONPath")
    ELSE DecoratorBody(JArray([messages.items EXCEPT ![Len(messages.items)].content = value]))

\* createDecorationMessages
createDecorationMessages(Messages) ==
    [k \in 1..Len(Messages) |-> Message(Messages[k].Role, JString(Messages[k].Content))]

\* the decoration text put before the string whatever the append flag
decorateStringPrepend(v, decorationStr, append) == decorationStr \o <<" ">> \o v

\* updatedContent
decorateString(v, decorationStr, append) ==
    IF append THEN v \o <<" ">> \o decorationStr ELSE decorationStr \o <<" ">> \o v

\* the decoration messages put before the messages whatever the append flag
decorateMessagesPrepend(messages, decorationMessages, append) ==
    decorationMessages \o messages

\* updatedMessages
decorateMessages(messages, decorationMessages, append) ==
    IF append THEN messages \o decorationMessages ELSE decorationMessages \o messages

\* what OnRequest of the prompt decorator returns for a request body
decoratorOnRequest(p, body) ==
    IF body.kind = "nil" THEN DecoratorError("Empty request body")
    ELSE IF body.kind = "badjson" THEN DecoratorError("Error parsing JSON payload")
    ELSE LET extracted == ExtractValueFromJsonpath(body.messages, p.JsonPath)
             v == extracted.value
         IN IF extracted.err THEN DecoratorError("Error extracting value from JSONPath")
            ELSE IF v.t = "string"
            THEN IF p.Text.nil
                 THEN DecoratorError("Invalid configuration for string target")
                 ELSE updateAtPath(body.messages, p.JsonPath,
                          JString(decorateString(v.s, p.Text.s, p.Append)))
            ELSE IF v.t = "array"
            THEN IF Len(p.Messages) = 0
                 THEN DecoratorError("Invalid configuration for messages target")
                 ELSE IF \E i \in 1..Len(v.items) : ~v.items[i].map
                 THEN DecoratorError("Array contains non-map elements")
                 ELSE updateAtPath(body.messages, p.JsonPath,
                          JArray(decorateMessages(v.items,
                                     createDecorationMessages(p.Messages), p.Append)))
            ELSE DecoratorError("Extracted value must be a string or an array of message objects")

NoDecorator == [on |-> FALSE,
                params |-> [Text |-> [nil |-> TRUE, s |-> <<>>], Messages |-> <<>>,
                            JsonPath |-> "", Append |-> FALSE],
                body |-> [kind |-> "nil", messages |-> JAbsent],
                out |-> NoDecoratorAction]

DecoratorOnRequest ==
    /\ decorator.on
    /\ decorator.out.kind = "none"
    /\ decorator' = [decorator EXCEPT
                        !.out = decoratorOnRequest(decorator.params, decorator.body)]
    /\ UNCHANGED <<rawParams, policyErr, params, pc, payload, metadata, req, resp, alloc, restorer,
                 removeHeaders>>

\* the parameters parseParams accepts: a text or messages, not both; a path
\* or the default of the style; the append flag
DecorationTexts == {<<"d">>, <<"d", " ", "e">>}
DecorationMessages ==
    {<< [Role |-> "system", Content |-> <<"d">>] >>,
     << [Role |-> "system", Content |-> <<"d">>], [Role |-> "user", Content |-> <<"e">>] >>}
DecoratorParams ==
    {[Text |-> [nil |-> FALSE, s |-> t], Messages |-> <<>>, JsonPath |-> j, Append |-> a] :
        t \in DecorationTexts,
        j \in {defaultTextDecorationJSONPath, defaultMessagesDecorationJSONPath},
        a \in BOOLEAN}
    \cup
    {[Text |-> [nil |-> TRUE, s |-> <<>>], Messages |-> m, JsonPath |-> j, Append |-> a] :
        m \in DecorationMessages,
        j \in {defaultTextDecorationJSONPath, defaultMessagesDecorationJSONPath},
        a \in BOOLEAN}

\* the request bodies
MessageItems ==
    {NotMessage,
     Message("user", JString(<<"u">>)),
     Message("assistant", JString(<<>>)),
     Message("user", JArray(<< Message("", JString(<<"u">>)) >>)),
     Message("user", JAbsent)}
RECURSIVE MessageLists(_)
MessageLists(n) ==
    IF n = 0 THEN {<<>>}
    ELSE LET L == MessageLists(n - 1) IN L \cup {Append(l, i) : l \in L, i \in MessageItems}
DecoratorBodies ==
    {[kind |-> "nil", messages |-> JAbsent], [kind |-> "badjson", messages |-> JAbsent]}
    \cup {[kind |-> "object", messages |-> m] :
             m \in {JAbsent, JOther, JString(<<"u">>)}
                    \cup {JArray(l) : l \in MessageLists(MaxMessages)}}

(***************************************************************************)
(* One call of restorePIIInResponse on a response text and a map; the      *)
(* entries of the map come in the order in which Go ranges over it.        *)
(***************************************************************************)
NoRestorer == [on |-> FALSE, text |-> <<>>, entry |-> <<>>, order |-> <<>>,
               done |-> FALSE, out |-> <<>>]

RestoreResponse ==
    /\ restorer.on
    /\ ~restorer.done
    /\ \E order \in Perms(DOMAIN restorer.entry) :
          restorer' = [restorer EXCEPT
                          !.order = order,
                          !.done = TRUE,
                          !.out = restorePIIInResponse(restorer.text, restorer.entry, order)]
    /\ UNCHANGED <<rawParams, policyErr, params, pc, payload, metadata, req, resp, alloc,
                   decorator, removeHeaders>>

\* the maps that masking builds on some contents, and the empty map
RestorerContents == {<<"0", "b">>, <<"a", "b", "b">>, <<"b">>}
RestorerEntries ==
    {<<>>} \cup
    UNION {{FindMatches(c, d, o).allMatches : o \in Perms(DOMAIN d)} :
              c \in RestorerContents, d \in DetectorSets}

\* response texts: up to MaxParts pieces, each a placeholder, a part of one
\* or other text
ResponseParts ==
    {<<"a">>, Placeholder(<<"D">>, 0), Placeholder(<<"D">>, 1),
     <<"[", "D", "_">>, <<"0", "0", "1", "]">>}
RECURSIVE ResponseTexts(_)
ResponseTexts(n) ==
    IF n = 0 THEN {<<>>}
    ELSE LET T == ResponseTexts(n - 1) IN T \cup {t \o c : t \in T, c \in ResponseParts}

(***************************************************************************)
(* Remove headers (package removeheaders).  A value of the params map is   *)
(* absent, of the expected type, or of another type.                       *)
(***************************************************************************)
\* the value under "headers", "requestHeaders" or "responseHeaders"
HAbsent == [t |-> "absent", items |-> <<>>]
HNotArray == [t |-> "other", items |-> <<>>]
HArray(items) == [t |-> "array", items |-> items]

\* the value under "request" or "response"
PhaseAbsent == [t |-> "absent", headers |-> HAbsent]
PhaseNotObject == [t |-> "other", headers |-> HAbsent]
PhaseObject(headers) == [t |-> "object", headers |-> headers]

\* an item of a headers array
Header(name) == [obj |-> TRUE, name |-> name]
NotHeader == [obj |-> FALSE, name |-> Absent]

\* strings.ToLower on ASCII letters
UpperLetters == <<"A","B","C","D","E","F","G","H","I","J","K","L","M",
                  "N","O","P","Q","R","S","T","U","V","W","X","Y","Z">>
LowerLetters == <<"a","b","c","d","e","f","g","h","i","j","k","l","m",
                  "n","o","p","q","r","s","t","u","v","w","x","y","z">>
ToLower(s) ==
    [i \in 1..Len(s) |->
        IF \E k \in 1..Len(UpperLetters) : UpperLetters[k] = s[i]
        THEN LowerLetters[CHOOSE k \in 1..Len(UpperLetters) : UpperLetters[k] = s[i]]
        ELSE s[i]]

getPhaseHeaders(p, phaseKey, legacyKey) ==
    IF p[phaseKey].t # "absent"
    THEN IF p[phaseKey].t # "object"
         THEN [headersRaw |-> HAbsent, ok |-> FALSE, err |-> "must be an object"]
         ELSE IF p[phaseKey].headers.t = "absent"
         THEN [headersRaw |-> HAbsent, ok |-> FALSE, err |-> "headers must be specified"]
         ELSE [headersRaw |-> p[phaseKey].headers, ok |-> TRUE, err |-> "nil"]
    ELSE IF p[legacyKey].t # "absent"
    THEN [headersRaw |-> p[legacyKey], ok |-> TRUE, err |-> "nil"]
    ELSE [headersRaw |-> HAbsent, ok |-> FALSE, err |-> "nil"]

\* the loop of parseHeaderNames from item i on
RECURSIVE parseHeaderNamesFrom(_, _)
parseHeaderNamesFrom(headers, i) ==
    IF i > Len(headers) THEN <<>>
    ELSE LET headerRaw == headers[i]
             normalizedName == ToLower(TrimSpace(headerRaw.name.s))
         IN IF ~headerRaw.obj \/ headerRaw.name.t # "string" \/ normalizedName = <<>>
            THEN parseHeaderNamesFrom(headers, i + 1)
            ELSE <<normalizedName>> \o parseHeaderNamesFrom(headers, i + 1)

parseHeaderNames(headersRaw) ==
    IF headersRaw.t # "array" THEN <<>> ELSE parseHeaderNamesFrom(headersRaw.items, 1)

\* UpstreamRequestModifications{} / UpstreamResponseModifications{}
NoModifications == [RemoveHeaders |-> <<>>]

removeHeadersOnRequest(p) ==
    LET r == getPhaseHeaders(p, "request", "requestHeaders")
        headerNames == parseHeaderNames(r.headersRaw)
    IN IF r.err # "nil" \/ ~r.ok THEN NoModifications
       ELSE IF Len(headerNames) = 0 THEN NoModifications
       ELSE [RemoveHeaders |-> headerNames]

\* OnResponse reading the keys of the request phase
removeHeadersOnResponseOfRequest(p) == removeHeadersOnRequest(p)

removeHeadersOnResponse(p) ==
    LET r == getPhaseHeaders(p, "response", "responseHeaders")
        headerNames == parseHeaderNames(r.headersRaw)
    IN IF r.err # "nil" \/ ~r.ok THEN NoModifications
       ELSE IF Len(headerNames) = 0 THEN NoModifications
       ELSE [RemoveHeaders |-> headerNames]

NoHeaderParams == [request |-> PhaseAbsent, requestHeaders |-> HAbsent,
                   response |-> PhaseAbsent, responseHeaders |-> HAbsent]
NoRemoveHeaders == [on |-> FALSE, params |-> NoHeaderParams,
                    requestDone |-> FALSE, request |-> NoModifications,
                    responseDone |-> FALSE, response |-> NoModifications]

RemoveHeadersOnRequest ==
    /\ removeHeaders.on
    /\ ~removeHeaders.requestDone
    /\ removeHeaders' = [removeHeaders EXCEPT
                            !.requestDone = TRUE,
                            !.request = removeHeadersOnRequest(removeHeaders.params)]
    /\ UNCHANGED <<rawParams, policyErr, params, pc, payload, metadata, req, resp, alloc,
                   decorator, restorer>>

RemoveHeadersOnResponse ==
    /\ removeHeaders.on
    /\ ~removeHeaders.responseDone
    /\ removeHeaders' = [removeHeaders EXCEPT
                            !.responseDone = TRUE,
                            !.response = removeHeadersOnResponse(removeHeaders.params)]
    /\ UNCHANGED <<rawParams, policyErr, params, pc, payload, metadata, req, resp, alloc,
                   decorator, restorer>>

\* the params maps: header names with upper case and spaces around them, a
\* name of spaces only, items that are no header objects
HeaderNames == {<<"X", "-", "A">>, <<" ", "b", " ">>, <<" ">>}
HeaderItems ==
    {NotHeader, Header(Absent), Header(Other)} \cup {Header(Str(n)) : n \in HeaderNames}
RECURSIVE HeaderLists(_)
HeaderLists(n) ==
    IF n = 0 THEN {<<>>}
    ELSE LET L == HeaderLists(n - 1) IN L \cup {Append(l, i) : l \in L, i \in HeaderItems}
HeaderValues == {HNotArray} \cup {HArray(l) : l \in HeaderLists(MaxHeaders)}
LegacyList == HArray(<<Header(Str(<<"L">>))>>)
OtherPhaseList == HArray(<<Header(Str(<<"Y">>))>>)

\* <<value under the phase key, value under the legacy key>>
PhaseConfigs ==
    {<<PhaseAbsent, HAbsent>>, <<PhaseNotObject, LegacyList>>,
     <<PhaseObject(HAbsent), LegacyList>>}
    \cup {<<PhaseAbsent, h>> : h \in HeaderValues}
    \cup {<<PhaseObject(h), HAbsent>> : h \in HeaderValues}
    \cup {<<PhaseObject(h), LegacyList>> : h \in HeaderValues}
OtherPhaseConfigs ==
    {<<PhaseAbsent, HAbsent>>, <<PhaseNotObject, HAbsent>>,
     <<PhaseObject(OtherPhaseList), HAbsent>>, <<PhaseAbsent, OtherPhaseList>>}
RemoveHeadersParams ==
    {[request |-> a[1], requestHeaders |-> a[2],
      response |-> b[1], responseHeaders |-> b[2]] :
        a \in PhaseConfigs, b \in OtherPhaseConfigs}
    \cup {[request |-> a[1], requestHeaders |-> a[2],
           response |-> b[1], responseHeaders |-> b[2]] :
             a \in OtherPhaseConfigs, b \in PhaseConfigs}

(***************************************************************************)
(* Specifications.                                                         *)
(***************************************************************************)
Next == \E e \in Exch : OnRequest(e) \/ OnResponse(e)

\* one exchange on a fresh context, every payload
Init ==
    /\ params \in Configs
    /\ rawParams = RawOf(params)
    /\ policyErr = "nil"
    /\ pc = [e \in Exch |-> IF e = 1 THEN "new" ELSE "off"]
    /\ \E p \in Payloads : payload = [e \in Exch |-> IF e = 1 THEN p ELSE NilPayload]
    /\ metadata = [e \in Exch |-> FreshMetadata]
    /\ req = [e \in Exch |-> NoReq]
    /\ resp = [e \in Exch |-> NoResp]
    /\ alloc = NoAlloc
    /\ decorator = NoDecorator
    /\ restorer = NoRestorer
    /\ removeHeaders = NoRemoveHeaders

Spec == Init /\ [][Next]_vars

\* the request phase alone in masking mode, every payload
NextMask == \E e \in Exch : OnRequest(e)
InitMask ==
    /\ params \in {c \in Configs : ~c.RedactPII}
    /\ rawParams = RawOf(params)
    /\ policyErr = "nil"
    /\ pc = [e \in Exch |-> IF e = 1 THEN "new" ELSE "off"]
    /\ \E p \in Payloads : payload = [e \in Exch |-> IF e = 1 THEN p ELSE NilPayload]
    /\ metadata = [e \in Exch |-> FreshMetadata]
    /\ req = [e \in Exch |-> NoReq]
    /\ resp = [e \in Exch |-> NoResp]
    /\ alloc = NoAlloc
    /\ decorator = NoDecorator
    /\ restorer = NoRestorer
    /\ removeHeaders = NoRemoveHeaders

SpecMask == InitMask /\ [][NextMask]_vars

\* one exchange whose context may already hold a value under the key; one of
\* the extracted values is quoted and padded, one payload is no JSON object
NotObjectPayload == [kind |-> "notobject", text |-> <<"b">>]
StalePayloads == {NilPayload, BadPayload, NotObjectPayload} \cup
                 {[kind |-> "json", text |-> t] :
                     t \in {<<>>, <<"a">>, <<"b">>, <<"0", "b">>, PH, <<Quote, " ", "b", Quote>>}}
InitStale ==
    /\ params \in Configs
    /\ rawParams = RawOf(params)
    /\ policyErr = "nil"
    /\ pc = [e \in Exch |-> IF e = 1 THEN "new" ELSE "off"]
    /\ \E p \in StalePayloads :
          payload = [e \in Exch |-> IF e = 1 THEN p ELSE NilPayload]
    /\ \E m \in InitialMetadata :
          metadata = [e \in Exch |-> IF e = 1 THEN m ELSE FreshMetadata]
    /\ req = [e \in Exch |-> NoReq]
    /\ resp = [e \in Exch |-> NoResp]
    /\ alloc = NoAlloc
    /\ decorator = NoDecorator
    /\ restorer = NoRestorer
    /\ removeHeaders = NoRemoveHeaders

SpecStale == InitStale /\ [][Next]_vars

\* several exchanges in flight on one policy instance, each on its own fresh
\* context, in masking or in redaction mode
ConcPayloads == {[kind |-> "json", text |-> t] : t \in {<<"b">>, <<"0", "b">>}}
ConcConfigs == {c \in Configs : DOMAIN c.PIIEntities \in {{<<"D">>}, {<<"E">>}}}
InitConc ==
    /\ params \in ConcConfigs
    /\ rawParams = RawOf(params)
    /\ policyErr = "nil"
    /\ pc = [e \in Exch |-> "new"]
    /\ payload \in [Exch -> ConcPayloads]
    /\ metadata = [e \in Exch |-> FreshMetadata]
    /\ req = [e \in Exch |-> NoReq]
    /\ resp = [e \in Exch |-> NoResp]
    /\ alloc = NoAlloc
    /\ decorator = NoDecorator
    /\ restorer = NoRestorer
    /\ removeHeaders = NoRemoveHeaders

SpecConc == InitConc /\ [][Next]_vars

\* the construction of a policy from every params map, before any exchange
NextBuild == GetPolicy
InitBuild ==
    /\ rawParams \in RawParams
    /\ policyErr = "none"
    /\ params = ZeroParams
    /\ pc = [e \in Exch |-> "off"]
    /\ payload = [e \in Exch |-> NilPayload]
    /\ metadata = [e \in Exch |-> FreshMetadata]
    /\ req = [e \in Exch |-> NoReq]
    /\ resp = [e \in Exch |-> NoResp]
    /\ alloc = NoAlloc
    /\ decorator = NoDecorator
    /\ restorer = NoRestorer
    /\ removeHeaders = NoRemoveHeaders

SpecBuild == InitBuild /\ [][NextBuild]_vars

\* the first pass of one masking request, entered when the request has
\* already claimed start literals: none, or as many as bring the counter to
\* the next hexadecimal digit
CounterStarts == {0, 16 * 16 - 4, 16 * 16 * 16 * 16 - 4}
NextAlloc == ClaimMatch
InitAlloc ==
    /\ params \in {c \in Configs : ~c.RedactPII}
    /\ rawParams = RawOf(params)
    /\ policyErr = "nil"
    /\ pc = [e \in Exch |-> "off"]
    /\ payload = [e \in Exch |-> NilPayload]
    /\ metadata = [e \in Exch |-> FreshMetadata]
    /\ req = [e \in Exch |-> NoReq]
    /\ resp = [e \in Exch |-> NoResp]
    /\ \E key \in DOMAIN params.PIIEntities, start \in CounterStarts :
          alloc = [on |-> TRUE, key |-> key, start |-> start, counter |-> start,
                   placeholder |-> <<>>]
    /\ decorator = NoDecorator
    /\ restorer = NoRestorer
    /\ removeHeaders = NoRemoveHeaders

SpecAlloc == InitAlloc /\ [][NextAlloc]_vars

\* one request on a prompt decorator of every accepted configuration
NextDecorator == DecoratorOnRequest
InitDecorator ==
    /\ rawParams = NoRawParams
    /\ policyErr = "none"
    /\ params = ZeroParams
    /\ pc = [e \in Exch |-> "off"]
    /\ payload = [e \in Exch |-> NilPayload]
    /\ metadata = [e \in Exch |-> FreshMetadata]
    /\ req = [e \in Exch |-> NoReq]
    /\ resp = [e \in Exch |-> NoResp]
    /\ alloc = NoAlloc
    /\ \E p \in DecoratorParams, body \in DecoratorBodies :
          decorator = [on |-> TRUE, params |-> p, body |-> body, out |-> NoDecoratorAction]
    /\ restorer = NoRestorer
    /\ removeHeaders = NoRemoveHeaders

SpecDecorator == InitDecorator /\ [][NextDecorator]_vars

\* restorePIIInResponse on every response text and every map
NextRestore == RestoreResponse
InitRestore ==
    /\ rawParams = NoRawParams
    /\ policyErr = "none"
    /\ params = ZeroParams
    /\ pc = [e \in Exch |-> "off"]
    /\ payload = [e \in Exch |-> NilPayload]
    /\ metadata = [e \in Exch |-> FreshMetadata]
    /\ req = [e \in Exch |-> NoReq]
    /\ resp = [e \in Exch |-> NoResp]
    /\ alloc = NoAlloc
    /\ decorator = NoDecorator
    /\ \E text \in ResponseTexts(MaxParts), entry \in RestorerEntries :
          restorer = [NoRestorer EXCEPT !.on = TRUE, !.text = text, !.entry = entry]
    /\ removeHeaders = NoRemoveHeaders

SpecRestore == InitRestore /\ [][NextRestore]_vars

\* remove headers: both handlers on every params map
NextRemoveHeaders == RemoveHeadersOnRequest \/ RemoveHeadersOnResponse
InitRemoveHeaders ==
    /\ rawParams = NoRawParams
    /\ policyErr = "none"
    /\ params = ZeroParams
    /\ pc = [e \in Exch |-> "off"]
    /\ payload = [e \in Exch |-> NilPayload]
    /\ metadata = [e \in Exch |-> FreshMetadata]
    /\ req = [e \in Exch |-> NoReq]
    /\ resp = [e \in Exch |-> NoResp]
    /\ alloc = NoAlloc
    /\ decorator = NoDecorator
    /\ restorer = NoRestorer
    /\ \E p \in RemoveHeadersParams :
          removeHeaders = [NoRemoveHeaders EXCEPT !.on = TRUE, !.params = p]

SpecRemoveHeaders == InitRemoveHeaders /\ [][NextRemoveHeaders]_vars

\* a policy constructed with a custom pattern that matches the empty string
NullableSource == <<"b", "|">>                                          \* b|
NullableSources == EntitySources @@ (<<"Z">> :> NullableSource)
NullableRawParams ==
    {[customPIIEntities |->
          Array([k \in 1..Len(names) |->
                    Object(Str(names[k]), Str(NullableSources[names[k]]))]),
      email |-> Absent, phone |-> Absent, ssn |-> Absent,
      jsonPath |-> NoPath, redactPII |-> Bool(r)] :
        names \in {<< <<"Z">> >>, << <<"Z">>, <<"E">> >>, << <<"D">>, <<"Z">> >>},
        r \in BOOLEAN}
InitNullable ==
    /\ rawParams \in NullableRawParams
    /\ policyErr = parseParams(rawParams).err
    /\ policyErr = "nil"
    /\ params = parseParams(rawParams).result
    /\ pc = [e \in Exch |-> IF e = 1 THEN "new" ELSE "off"]
    /\ \E t \in Texts(MaxChunks - 1) :
          payload = [e \in Exch |-> IF e = 1 THEN [kind |-> "json", text |-> t]
                                    ELSE NilPayload]
    /\ metadata = [e \in Exch |-> FreshMetadata]
    /\ req = [e \in Exch |-> NoReq]
    /\ resp = [e \in Exch |-> NoResp]
    /\ alloc = NoAlloc
    /\ decorator = NoDecorator
    /\ restorer = NoRestorer
    /\ removeHeaders = NoRemoveHeaders

SpecNullable == InitNullable /\ [][Next]_vars

(***************************************************************************)
(* Properties.                                                             *)
(***************************************************************************)
Requested(e) == pc[e] \in {"requested", "done"}

Range(f) == {f[x] : x \in DOMAIN f}

\* the number of leftmost non-overlapping occurrences of a non-empty w in s
RECURSIVE CountFrom(_, _, _)
CountFrom(s, w, i) ==
    LET j == IndexFrom(s, w, i)
    IN IF j = 0 THEN 0 ELSE 1 + CountFrom(s, w, j + Len(w))
Count(s, w) == CountFrom(s, w, 1)

\* OnRequest of e ran maskPIIFromContent / redactPIIFromContent on a content
Masked(e) == Requested(e) /\ ~params.RedactPII /\ payload[e].kind = "json"
Redacted(e) == Requested(e) /\ params.RedactPII /\ payload[e].kind = "json"

\* no substring of s has the placeholder shape
NoPlaceholderShaped(s) ==
    \A i \in 1..Len(s) : \A j \in i..Len(s) : ~IsPlaceholder(Sub(s, i, j))

\* the substrings of s that have the placeholder shape
PlaceholderSubstrings(s) ==
    {w \in {Sub(s, i, j) : i \in 1..Len(s), j \in 1..Len(s)} : IsPlaceholder(w)}

StrictSubstring(a, b) == Len(a) < Len(b) /\ Contains(b, a)

\* the literals the detectors match on content, whatever the order
MatchedLiterals(content, piiEntities) ==
    UNION {Range(FindAllString(piiEntities[n], content)) : n \in DOMAIN piiEntities}

ZeroMatches(content, piiEntities) == MatchedLiterals(content, piiEntities) = {}

\* s without the characters at the positions of P
RECURSIVE DropPositions(_, _, _)
DropPositions(s, P, i) ==
    IF i > Len(s) THEN <<>>
    ELSE (IF i \in P THEN <<>> ELSE <<s[i]>>) \o DropPositions(s, P, i + 1)

\* s without every occurrence of the words of W
RECURSIVE Erase(_, _)
Erase(s, W) ==
    IF W = {} THEN s
    ELSE LET w == CHOOSE w \in W : TRUE
         IN Erase(ReplaceAll(s, w, <<>>), W \ {w})

\* the positions of content inside an occurrence of a word of W
OccurrencePositions(content, W) ==
    {i \in 1..Len(content) :
        \E w \in W : \E j \in 1..i : HasAt(content, w, j) /\ i < j + Len(w)}

\* the positions of content inside a match of some detector
MatchPositions(content, piiEntities) ==
    {i \in 1..Len(content) :
        \E n \in DOMAIN piiEntities :
            LET idx == FindAllStringIndex(piiEntities[n], content)
            IN \E k \in 1..Len(idx) : idx[k][1] <= i /\ i < idx[k][2]}

\* C1: round trip. For a content without placeholder-shaped substring, restoring
\* the masked content with the entry that the mask call wrote gives the content
\* back, whatever the orders of iteration.
C1_RoundTrip ==
    \A e \in Exch :
        (/\ pc[e] = "done"
         /\ Masked(e)
         /\ req[e].wrote
         /\ NoPlaceholderShaped(req[e].extractedValue)
         /\ resp[e].payload = [kind |-> "raw", text |-> req[e].modifiedContent]
         /\ resp[e].lookup.map = req[e].entry)
        => resp[e].body = req[e].extractedValue

\* C2: a content with zero detector matches (or an empty content) gives the
\* unchanged outcome, request modifications without Body, in masking and in
\* redaction mode.
C2_NoMatchUnchanged ==
    \A e \in Exch :
        (/\ Requested(e)
         /\ payload[e].kind = "json"
         /\ ZeroMatches(TrimSpace(CleanText(payload[e].text)), params.PIIEntities))
        => req[e].kind = "pass" /\ req[e].body = NilPayload

C2_Witness ==
    \E e \in Exch :
        /\ Requested(e)
        /\ payload[e].kind = "json"
        /\ payload[e].text # <<>>
        /\ ZeroMatches(TrimSpace(CleanText(payload[e].text)), params.PIIEntities)
        /\ req[e].kind = "pass"

\* C3: the entry of one masking request is a bijection between the distinct
\* matched literals (those not of the placeholder shape) and their
\* placeholders, also when several detectors match the same literal; the entry
\* stored in the metadata is that mapping.
C3_Bijection ==
    \A e \in Exch :
        (Masked(e) /\ req[e].extractedValue # <<>>) =>
            LET entry == req[e].entry
                literals == {w \in MatchedLiterals(req[e].extractedValue, params.PIIEntities) :
                                ~IsPlaceholder(w)}
            IN /\ DOMAIN entry = literals
               /\ \A a, b \in DOMAIN entry : entry[a] = entry[b] => a = b
               /\ Cardinality(Range(entry)) = Cardinality(literals)
               /\ req[e].wrote =>
                    Lookup(metadata[MetadataOf(e)]) =
                        [exists |-> TRUE, type |-> "map", map |-> entry]

C3_Witness ==
    \E e \in Exch :
        /\ Masked(e)
        /\ Cardinality(DOMAIN req[e].entry) >= 2
        /\ \E n1, n2 \in DOMAIN params.PIIEntities :
              /\ n1 # n2
              /\ Range(FindAllString(params.PIIEntities[n1], req[e].extractedValue))
                   \cap Range(FindAllString(params.PIIEntities[n2], req[e].extractedValue))
                   # {}

\* C4: masking replaces every occurrence of every discovered literal by its
\* placeholder and leaves none in clear: what is left of the masked output
\* once the placeholders of the entry are taken out is the content without the
\* characters of the occurrences of the discovered literals.
C4_EveryOccurrenceMasked ==
    \A e \in Exch :
        (Masked(e) /\ req[e].wrote /\ NoPlaceholderShaped(req[e].extractedValue)) =>
            Erase(req[e].modifiedContent, Range(req[e].entry)) =
                DropPositions(req[e].extractedValue,
                    OccurrencePositions(req[e].extractedValue, DOMAIN req[e].entry), 1)

\* C5: substring safety. For discovered literals A, B with A a strict substring
\* of B, every occurrence of B is replaced as a whole: the placeholder of B
\* stands intact in the output once for every occurrence of B in the content.
C5_SubstringSafety ==
    \A e \in Exch :
        (Masked(e) /\ req[e].wrote /\ NoPlaceholderShaped(req[e].extractedValue)) =>
            \A A, B \in DOMAIN req[e].entry :
                StrictSubstring(A, B) =>
                    Count(req[e].modifiedContent, req[e].entry[B]) =
                        Count(req[e].extractedValue, B)

\* C6: anti-double-masking. A placeholder-shaped substring of the content is
\* not recorded as a literal and stands unchanged in the text that masking
\* returns, for every detector set.
C6_AntiDoubleMasking ==
    \A e \in Exch :
        Masked(e) =>
            \A w \in PlaceholderSubstrings(req[e].extractedValue) :
                /\ w \notin DOMAIN req[e].entry
                /\ req[e].wrote => Contains(req[e].modifiedContent, w)

\* C7: deterministic masking. The entry (entity label and placeholder of each
\* literal) and the masked output of a run are those of every other order in
\* which the detectors and the literals may be iterated.
C7_Deterministic ==
    \A e \in Exch :
        (Masked(e) /\ req[e].extractedValue # <<>>) =>
            \A order \in Perms(DOMAIN params.PIIEntities) :
                LET found == FindMatches(req[e].extractedValue, params.PIIEntities, order).allMatches
                IN /\ found = req[e].entry
                   /\ \A originals \in SortedOriginals(found) :
                        DOMAIN found # {} =>
                            replacePass(req[e].extractedValue, originals, found, Len(originals))
                                = req[e].modifiedContent

\* C8: redaction never restores. In redaction mode OnResponse returns the
\* unchanged outcome for every response body and every metadata, a stale
\* mapping whose placeholders occur in the response included.
C8_RedactionNeverRestores ==
    \A e \in Exch :
        (pc[e] = "done" /\ params.RedactPII) =>
            resp[e].kind = "pass" /\ resp[e].body = <<>>

C8_Witness ==
    \E e \in Exch :
        /\ pc[e] = "done"
        /\ params.RedactPII
        /\ Lookup(metadata[MetadataOf(e)]).type = "map"
        /\ \E lit \in DOMAIN Lookup(metadata[MetadataOf(e)]).map :
              /\ resp[e].payload.kind = "raw"
              /\ Contains(resp[e].payload.text, Lookup(metadata[MetadataOf(e)]).map[lit])
        /\ resp[e].kind = "pass"

\* C9: redaction replaces every match of every detector on the content by the
\* token: the characters of the redacted output other than those of the tokens
\* are the characters of the content outside all matches, whatever the order
\* of the detectors.
C9_RedactsEveryMatch ==
    \A e \in Exch :
        (Redacted(e) /\ req[e].modifiedContent # <<>>) =>
            Erase(req[e].modifiedContent, {<<"*">>}) =
                DropPositions(req[e].extractedValue,
                    MatchPositions(req[e].extractedValue, params.PIIEntities), 1)

\* C10: exchange isolation. The response phase of an exchange looks up exactly
\* the entry that the request phase of the same exchange wrote, or none if it
\* wrote none, under every interleaving of the exchanges in flight.
C10_ExchangeIsolation ==
    \A e \in Exch :
        (pc[e] = "done" /\ ~params.RedactPII) =>
            IF req[e].wrote
            THEN resp[e].lookup = [exists |-> TRUE, type |-> "map", map |-> req[e].entry]
            ELSE resp[e].lookup = NoLookup

C10_Witness ==
    \E e1, e2 \in Exch :
        /\ e1 # e2
        /\ pc[e1] = "done" /\ pc[e2] = "requested"
        /\ req[e1].wrote /\ req[e2].wrote
        /\ req[e1].entry # req[e2].entry
        /\ resp[e1].payload.kind = "raw"
        /\ resp[e1].lookup.map = req[e1].entry
        /\ resp[e1].kind = "body"

\* C11: the DetectorSet is immutable after construction. No call of OnRequest
\* or OnResponse, under any interleaving of the exchanges in flight, changes
\* the entity->pattern map, the JSONPath or the mode flag of the policy, and
\* nothing else is shared: a call for one exchange changes no state of another.
C11_DetectorSetImmutable ==
    [][/\ params'.PIIEntities = params.PIIEntities
       /\ params'.JsonPath = params.JsonPath
       /\ params'.RedactPII = params.RedactPII
       /\ \A e \in Exch :
             pc'[e] = pc[e] =>
                 /\ payload'[e] = payload[e]
                 /\ metadata'[MetadataOf(e)] = metadata[MetadataOf(e)]
                 /\ req'[e] = req[e]
                 /\ resp'[e] = resp[e]]_vars

C11_Witness ==
    \E e1, e2 \in Exch :
        /\ e1 # e2
        /\ pc[e1] = "done" /\ pc[e2] = "done"
        /\ req[e1].kind = "body" /\ req[e2].kind = "body"
        /\ req[e1].body # req[e2].body
        /\ params \in ConcConfigs

\* the items of customPIIEntities that parseParams is given to validate
ConfiguredItems(raw) ==
    IF raw.customPIIEntities.t = "array"
          \/ (raw.customPIIEntities.t = "string" /\ raw.customPIIEntities.parses)
    THEN raw.customPIIEntities.items
    ELSE <<>>

\* the toggle of a built-in is set to true
Enabled(raw, key) == raw[key].t = "bool" /\ raw[key].b

BuiltInNames ==
    ("email" :> DefaultEmailEntityName) @@ ("phone" :> DefaultPhoneEntityName)
        @@ ("ssn" :> DefaultSSNEntityName)
BuiltInPatterns ==
    ("email" :> DefaultEmailPattern) @@ ("phone" :> DefaultPhonePattern)
        @@ ("ssn" :> DefaultSSNPattern)

\* an entity name is configured more than once: twice among the custom
\* definitions, or as a custom definition and through an enabled built-in
HasDuplicate(raw) ==
    LET items == ConfiguredItems(raw)
    IN \/ \E i, j \in 1..Len(items) :
             /\ i < j
             /\ items[i].piiEntity.t = "string"
             /\ items[i].piiEntity = items[j].piiEntity
       \/ \E i \in 1..Len(items), key \in DOMAIN BuiltInNames :
             /\ Enabled(raw, key)
             /\ items[i].piiEntity = Str(BuiltInNames[key])

\* C12: construction fails whenever the same entity name is configured more
\* than once (twice among the custom definitions, or as a custom definition
\* and through a built-in toggle set to true), and the duplicate error is
\* returned for such a configuration only: a custom entity named like a
\* built-in whose toggle is false or absent is no duplicate.
C12_DuplicateFails ==
    policyErr # "none" =>
        /\ HasDuplicate(rawParams) => policyErr # "nil"
        /\ policyErr = "duplicate piiEntity" => HasDuplicate(rawParams)

C12_Witness ==
    /\ policyErr = "duplicate piiEntity"
    /\ Enabled(rawParams, "email")
    /\ Len(ConfiguredItems(rawParams)) = 1
    /\ ConfiguredItems(rawParams)[1].piiEntity = Str(DefaultEmailEntityName)

\* no custom definition and no built-in toggle set to true
NoEntityConfigured(raw) ==
    /\ ConfiguredItems(raw) = <<>>
    /\ \A key \in DOMAIN BuiltInNames : ~Enabled(raw, key)

\* C13: construction fails when no entity ends up configured, and a policy
\* that is constructed holds a non-empty DetectorSet: exactly the custom
\* entities, each with its compiled pattern, and the enabled built-ins.
C13_AtLeastOneEntity ==
    policyErr # "none" =>
        /\ NoEntityConfigured(rawParams) => policyErr # "nil"
        /\ policyErr = "nil" =>
              LET items == ConfiguredItems(rawParams)
                  custom == {items[i].piiEntity.s : i \in 1..Len(items)}
                  builtIn == {BuiltInNames[key] :
                                 key \in {k \in DOMAIN BuiltInNames : Enabled(rawParams, k)}}
              IN /\ DOMAIN params.PIIEntities # {}
                 /\ DOMAIN params.PIIEntities = custom \cup builtIn
                 /\ \A i \in 1..Len(items) :
                       params.PIIEntities[items[i].piiEntity.s]
                           = Compile(items[i].piiRegex.s).pat
                 /\ \A key \in DOMAIN BuiltInNames :
                       Enabled(rawParams, key) =>
                           params.PIIEntities[BuiltInNames[key]] = BuiltInPatterns[key]

C13_Witness ==
    /\ policyErr = "at least one PII detector must be configured"
    /\ rawParams.customPIIEntities = Array(<<>>)
    /\ rawParams.email = Bool(FALSE)

\* C14: on an extraction error OnRequest returns the immediate error response
\* and performs no substitution: it emits no modified body and leaves the
\* metadata of the exchange, the key of the mapping included, as it was.
C14_ExtractionErrorFails ==
    [][\A e \in Exch :
          (pc[e] = "new" /\ pc'[e] = "requested" /\ payload[e].kind = "bad") =>
              /\ req'[e].kind = "error"
              /\ req'[e].body = NilPayload
              /\ req'[e].modifiedContent = <<>>
              /\ metadata' = metadata]_vars

C14_Witness ==
    \E e \in Exch :
        /\ Requested(e)
        /\ payload[e].kind = "bad"
        /\ req[e].kind = "error"
        /\ Lookup(metadata[MetadataOf(e)]).map = StaleMap

\* C15: on every write-back failure (the payload is not read as a JSON
\* object, the value cannot be set at the path, or the object cannot be
\* serialized again) the body that the request phase emits is the unmodified
\* original payload.
C15_WriteBackFallsBack ==
    \A e \in Exch :
        (/\ Requested(e)
         /\ req[e].kind = "body"
         /\ (payload[e].kind # "json" \/ ~req[e].setOk))
        => req[e].body = payload[e]

\* no placeholder stored in the map m occurs in the text s
NoStoredPlaceholder(s, m) == \A lit \in DOMAIN m : ~Contains(s, m[lit])

\* C16: restoration never errors. OnResponse returns the unchanged outcome or
\* a transformed body, never a failure, for every response body and every
\* metadata; without an entry under the key, with an entry that is no
\* literal->placeholder map, without a response body, and for a response that
\* contains none of the stored placeholders, the outcome is the unchanged one.
C16_RestorationNeverErrors ==
    \A e \in Exch :
        pc[e] = "done" =>
            LET maskedPII == Lookup(metadata[MetadataOf(e)])
            IN /\ resp[e].kind \in {"pass", "body"}
               /\ (\/ ~maskedPII.exists
                   \/ maskedPII.type # "map"
                   \/ resp[e].payload.kind = "nil"
                   \/ NoStoredPlaceholder(resp[e].payload.text, maskedPII.map))
                  => resp[e].kind = "pass"

C16_Witness ==
    \E e \in Exch :
        /\ pc[e] = "done"
        /\ ~params.RedactPII
        /\ Lookup(metadata[MetadataOf(e)]).type = "map"
        /\ resp[e].payload.kind = "raw"
        /\ resp[e].payload.text # <<>>
        /\ NoStoredPlaceholder(resp[e].payload.text, Lookup(metadata[MetadataOf(e)]).map)
        /\ resp[e].kind = "pass"

\* C17: every placeholder allocated has the exact shape [ENTITY_XXXX], ENTITY
\* the name of the detector at work and XXXX exactly four lower-case
\* hexadecimal digits, whatever the number of literals claimed before it, and
\* so has the shape that the placeholder pattern recognises.
C17_PlaceholderShape ==
    alloc.placeholder # <<>> =>
        LET ph == alloc.placeholder
            digits == Sub(ph, Len(alloc.key) + 3, Len(ph) - 1)
        IN /\ ph = <<"[">> \o alloc.key \o <<"_">> \o digits \o <<"]">>
           /\ Len(digits) = 4
           /\ \A i \in 1..Len(digits) : digits[i] \in HexChars
           /\ IsPlaceholder(ph)

\* C18: prompt decorator placement. With append false the decoration comes
\* before the original target, with append true after it. For a string target
\* the result is the decoration text and the original string with one space
\* between them; for an array target the result holds the decoration messages
\* and the original messages, the original ones unchanged and in their order,
\* and its length is the sum of both.
C18_DecorationPlacement ==
    decorator.out.kind = "body" =>
        LET p == decorator.params
            target == ExtractValueFromJsonpath(decorator.body.messages, p.JsonPath).value
            result == ExtractValueFromJsonpath(decorator.out.messages, p.JsonPath).value
            text == p.Text.s
            deco == p.Messages
            nd == IF target.t = "string" THEN Len(text) ELSE Len(deco)
            nt == IF target.t = "string" THEN Len(target.s) ELSE Len(target.items)
            \* where the decoration and the original start in the result
            decoAt == IF p.Append THEN nt ELSE 0
            origAt == IF p.Append THEN 0 ELSE nd
        IN IF target.t = "string"
           THEN /\ result.t = "string"
                /\ Len(result.s) = nd + nt + 1
                /\ \A i \in 1..nd : result.s[(IF p.Append THEN nt + 1 ELSE 0) + i] = text[i]
                /\ \A i \in 1..nt : result.s[(IF p.Append THEN 0 ELSE nd + 1) + i] = target.s[i]
                /\ result.s[(IF p.Append THEN nt ELSE nd) + 1] = " "
           ELSE /\ result.t = "array"
                /\ Len(result.items) = nd + nt
                /\ \A i \in 1..nt : result.items[origAt + i] = target.items[i]
                /\ \A i \in 1..nd :
                      result.items[decoAt + i] =
                          Message(deco[i].Role, JString(deco[i].Content))

C18_Witness ==
    /\ decorator.out.kind = "body"
    /\ decorator.params.Append
    /\ Len(decorator.params.Messages) = 2
    /\ decorator.body.messages.t = "array"
    /\ Len(decorator.body.messages.items) = 2
    /\ decorator.params.JsonPath = defaultMessagesDecorationJSONPath

\* the number written in hexadecimal between the last "_" of a placeholder
\* and its closing bracket
HexDigitValue(c) == CHOOSE v \in 0..15 : HexDigit[v + 1] = c
RECURSIVE HexValue(_)
HexValue(digits) ==
    IF digits = <<>> THEN 0
    ELSE 16 * HexValue(Sub(digits, 1, Len(digits) - 1)) + HexDigitValue(digits[Len(digits)])
LastUnderscore(w) ==
    CHOOSE i \in 1..Len(w) : w[i] = "_" /\ \A j \in (i + 1)..Len(w) : w[j] # "_"
EmbeddedCounter(w) == HexValue(Sub(w, LastUnderscore(w) + 1, Len(w) - 1))

\* C19: in one masking request the counter values embedded in the
\* placeholders are exactly 0..n-1, n the number of distinct literals that
\* got a placeholder: the counter starts at 0 in each request, goes up by one
\* with every newly allocated placeholder whatever the entity, and is not
\* consumed by a match that is already claimed or has the placeholder shape.
C19_CounterAllocation ==
    \A e \in Exch :
        Masked(e) =>
            LET entry == req[e].entry
                n == Cardinality(DOMAIN entry)
            IN /\ {EmbeddedCounter(entry[l]) : l \in DOMAIN entry} = 0..(n - 1)
               /\ \A l \in DOMAIN entry :
                     \E key \in DOMAIN params.PIIEntities :
                        entry[l] = Placeholder(key, EmbeddedCounter(entry[l]))

\* the detector visited first matches a placeholder-shaped text, a later one
\* matches one literal several times and a second literal
C19_Witness ==
    \E e \in Exch :
        /\ Masked(e)
        /\ Len(req[e].order) = 2
        /\ \E m \in Range(FindAllString(params.PIIEntities[req[e].order[1]],
                                        req[e].extractedValue)) : IsPlaceholder(m)
        /\ Cardinality(DOMAIN req[e].entry) = 2
        /\ \E l \in DOMAIN req[e].entry :
              Count(req[e].extractedValue, l) >= 2

\* the literals that the request phase of e discovers: the texts the
\* detectors match on the cleaned content that have not the placeholder shape
DiscoveredLiterals(e) ==
    IF DOMAIN params.PIIEntities = {} \/ payload[e].kind \in {"nil", "bad"}
    THEN {}
    ELSE {m \in MatchedLiterals(TrimSpace(CleanText(payload[e].text)), params.PIIEntities) :
             ~IsPlaceholder(m)}

\* C20: the request phase writes the key of the mapping if and only if the
\* mode is masking and at least one literal was discovered, and the value it
\* stores is the literal->placeholder map of that request; in redaction mode,
\* and in masking mode without a literal, the metadata of the exchange is
\* left as it was, and every other key keeps its value in every case.
C20_MetadataWrite ==
    [][\A e \in Exch :
          (pc[e] = "new" /\ pc'[e] = "requested") =>
              LET old == metadata[MetadataOf(e)]
                  new == metadata'[MetadataOf(e)]
              IN /\ IF ~params.RedactPII /\ DiscoveredLiterals(e) # {}
                    THEN /\ DOMAIN new = DOMAIN old \cup {MetadataKeyPIIEntities}
                         /\ new[MetadataKeyPIIEntities] =
                                [type |-> "map", map |-> req'[e].entry]
                         /\ DOMAIN req'[e].entry = DiscoveredLiterals(e)
                    ELSE new = old
                 /\ \A k \in DOMAIN old \ {MetadataKeyPIIEntities} :
                       k \in DOMAIN new /\ new[k] = old[k]
                 /\ \A x \in DOMAIN metadata \ {MetadataOf(e)} :
                       metadata'[x] = metadata[x]]_vars

\* a masking request that found a literal stored its map, next to the other key
C20_Witness ==
    \E e \in Exch :
        /\ pc[e] = "requested"
        /\ ~params.RedactPII
        /\ DiscoveredLiterals(e) # {}
        /\ DOMAIN metadata[MetadataOf(e)] = {"other", MetadataKeyPIIEntities}
        /\ metadata[MetadataOf(e)][MetadataKeyPIIEntities] =
               [type |-> "map", map |-> req[e].entry]
        /\ req[e].entry # StaleMap

\* the position of the literal w in the order o of the replacement pass
PositionIn(o, w) == CHOOSE k \in 1..Len(o) : o[k] = w

\* C21: substitution order. The replacement pass of a masking request takes
\* the discovered literals one after the other, each exactly once, in
\* descending order of length: of two literals the longer one has all its
\* occurrences replaced before any occurrence of the shorter one is, and the
\* masked content is the result of the replacements made in that order.
C21_SubstitutionOrder ==
    \A e \in Exch :
        (Masked(e) /\ req[e].wrote) =>
            LET o == req[e].originals
                entry == req[e].entry
            IN /\ Range(o) = DOMAIN entry
               /\ Len(o) = Cardinality(DOMAIN entry)
               /\ \A A, B \in DOMAIN entry :
                     Len(A) > Len(B) => PositionIn(o, A) < PositionIn(o, B)
               /\ req[e].modifiedContent =
                     replacePass(req[e].extractedValue, o, entry, Len(o))

\* a literal and a longer literal that contains it were both replaced
C21_Witness ==
    \E e \in Exch :
        /\ Masked(e)
        /\ req[e].wrote
        /\ req[e].kind = "body"
        /\ \E A, B \in DOMAIN req[e].entry :
              /\ StrictSubstring(B, A)
              /\ PositionIn(req[e].originals, A) < PositionIn(req[e].originals, B)

\* C22: placeholder integrity. Once the replacement pass of a literal has
\* inserted its placeholder, the pass of no later literal changes a character
\* of it: each later pass leaves intact every occurrence of every placeholder
\* inserted before it, so the placeholders stand intact in the masked output.
C22_PlaceholderIntegrity ==
    \A e \in Exch :
        (Masked(e) /\ req[e].wrote) =>
            LET o == req[e].originals
                entry == req[e].entry
                after(k) == replacePass(req[e].extractedValue, o, entry, k)
            IN \A k \in 1..Len(o) : \A j \in 1..(k - 1) :
                  Count(after(k), entry[o[j]]) = Count(after(k - 1), entry[o[j]])

\* the entity name written in a placeholder, between "[" and the last "_"
EmbeddedEntity(w) == Sub(w, 2, LastUnderscore(w) - 1)

\* the detectors of piiEntities that match the literal l on content
Matching(content, piiEntities, l) ==
    {n \in DOMAIN piiEntities : l \in Range(FindAllString(piiEntities[n], content))}

\* C23: first claim wins. A literal that several detectors match carries the
\* entity of the one processed first among them; a detector processed later
\* that matches it changes neither its label nor its placeholder and
\* allocates no second placeholder or counter value: the entry holds one
\* placeholder and one counter value per literal.
C23_FirstClaimWins ==
    \A e \in Exch :
        Masked(e) =>
            LET entry == req[e].entry
                o == req[e].order
                content == req[e].extractedValue
            IN /\ \A l \in DOMAIN entry :
                     LET M == Matching(content, params.PIIEntities, l)
                         first == CHOOSE k \in 1..Len(o) :
                                     o[k] \in M /\ \A j \in 1..(k - 1) : o[j] \notin M
                     IN /\ EmbeddedEntity(entry[l]) = o[first]
                        /\ entry[l] = FindMatches(content, params.PIIEntities,
                                                  Sub(o, 1, first)).allMatches[l]
               /\ Cardinality(Range(entry)) = Cardinality(DOMAIN entry)
               /\ \A l \in DOMAIN entry :
                     EmbeddedCounter(entry[l]) < Cardinality(DOMAIN entry)

\* two detectors match the same literal, and the later one claims another
C23_Witness ==
    \E e \in Exch :
        /\ Masked(e)
        /\ Len(req[e].order) = 2
        /\ \E l \in DOMAIN req[e].entry :
              /\ Matching(req[e].extractedValue, params.PIIEntities, l)
                     = DOMAIN params.PIIEntities
              /\ EmbeddedEntity(req[e].entry[l]) = req[e].order[1]
        /\ \E l \in DOMAIN req[e].entry :
              EmbeddedEntity(req[e].entry[l]) = req[e].order[2]

\* text with every occurrence of a placeholder of entry replaced by its
\* literal, the occurrences taken from the text as it was received
RECURSIVE RestoredFrom(_, _, _)
RestoredFrom(text, entry, i) ==
    IF i > Len(text) THEN <<>>
    ELSE LET L == {l \in DOMAIN entry : HasAt(text, entry[l], i)}
         IN IF L # {}
            THEN LET l == CHOOSE l \in L : TRUE
                 IN l \o RestoredFrom(text, entry, i + Len(entry[l]))
            ELSE <<text[i]>> \o RestoredFrom(text, entry, i + 1)

\* C24: restorer result. The restored text is the response with every
\* occurrence of every stored placeholder replaced by its literal, each
\* placeholder independently of the others: a placeholder that does not occur
\* changes nothing, and text that is no stored placeholder stays as it is.
C24_RestorerResult ==
    restorer.done =>
        restorer.out = RestoredFrom(restorer.text, restorer.entry, 1)

\* C29: restoration is deterministic. For every response text and every map
\* that masking produced, restorePIIInResponse returns the same text in
\* whatever order the entries of the map are iterated.
C29_RestorationDeterministic ==
    restorer.done =>
        \A order \in Perms(DOMAIN restorer.entry) :
            restorePIIInResponse(restorer.text, restorer.entry, order) = restorer.out

\* C25: request-phase non-interference. Under every interleaving of the
\* requests in flight on one policy instance, the masked output and the
\* entry of a request are those of a run of maskPIIFromContent on the content
\* of that request alone, with a counter of its own that starts at 0,
\* whatever the other requests contain.
C25_RequestNonInterference ==
    \A e \in Exch :
        Masked(e) =>
            LET content == TrimSpace(CleanText(payload[e].text))
            IN \E order \in Perms(DOMAIN params.PIIEntities) :
                  LET alone == FindMatches(content, params.PIIEntities, order).allMatches
                  IN /\ req[e].entry = (IF content = <<>> THEN <<>> ELSE alone)
                     /\ \E originals \in SortedOriginals(alone) :
                           req[e].modifiedContent =
                               maskPIIFromContent(content, params.PIIEntities,
                                                  FreshMetadata, order, originals).ret
                     /\ DOMAIN req[e].entry # {} =>
                           \E l \in DOMAIN req[e].entry :
                              EmbeddedCounter(req[e].entry[l]) = 0

\* two requests in flight with different contents, each with an entry
C25_Witness ==
    \E e1, e2 \in Exch :
        /\ e1 # e2
        /\ Masked(e1) /\ Masked(e2)
        /\ pc[e1] = "requested" /\ pc[e2] = "requested"
        /\ payload[e1] # payload[e2]
        /\ req[e1].wrote /\ req[e2].wrote
        /\ req[e1].entry # req[e2].entry
        /\ req[e1].modifiedContent # req[e2].modifiedContent

\* C26: a literal that as a whole has the placeholder shape is excluded from
\* matching: no entry that masking builds has a key of that shape, and such a
\* match allocates no placeholder, so the entry holds as many placeholders as
\* there are matched texts of another shape.
C26_PlaceholderShapedExcluded ==
    \A e \in Exch :
        Masked(e) =>
            LET shaped == {m \in MatchedLiterals(req[e].extractedValue, params.PIIEntities) :
                              IsPlaceholder(m)}
                others == MatchedLiterals(req[e].extractedValue, params.PIIEntities) \ shaped
            IN /\ \A l \in DOMAIN req[e].entry : ~IsPlaceholder(l)
               /\ DOMAIN req[e].entry \cap shaped = {}
               /\ Cardinality(Range(req[e].entry)) = Cardinality(others)
               /\ (others = {}) => (~req[e].wrote /\ req[e].kind = "pass")

\* a detector matches a text of the placeholder shape and nothing else is found
C26_Witness ==
    \E e \in Exch :
        /\ Masked(e)
        /\ \E m \in MatchedLiterals(req[e].extractedValue, params.PIIEntities) :
              IsPlaceholder(m)
        /\ Len(req[e].extractedValue) > Len(PH)
        /\ req[e].entry = <<>>
        /\ req[e].kind = "pass"

\* the list configured for a phase: the headers of the nested key when that
\* key is present, the legacy list otherwise; no list if the nested key is
\* present without being an object that has headers, or if there is no array
ConfiguredHeaders(p, phaseKey, legacyKey) ==
    LET raw == IF p[phaseKey].t # "absent"
               THEN (IF p[phaseKey].t = "object" THEN p[phaseKey].headers ELSE HAbsent)
               ELSE p[legacyKey]
    IN IF raw.t = "array" THEN raw.items ELSE <<>>

\* the trimmed, lower-cased names of a list that are not empty, in its order
IsNamed(h) == h.obj /\ h.name.t = "string" /\ TrimSpace(h.name.s) # <<>>
NormalizedNames(items) ==
    LET named == SelectSeq(items, IsNamed)
    IN [k \in 1..Len(named) |-> ToLower(TrimSpace(named[k].name.s))]

\* C27: remove-headers phase separation. The names OnRequest asks to remove
\* are the trimmed, lower-cased, non-empty names of the request list (the
\* nested request.headers when the key "request" is present, the legacy
\* requestHeaders otherwise) in the configured order; OnResponse does the
\* same with the response list; a phase without configuration or with a
\* malformed one returns no modifications, and no phase removes a header
\* that is configured for the other phase only.
C27_PhaseSeparation ==
    LET p == removeHeaders.params
        requestNames == NormalizedNames(ConfiguredHeaders(p, "request", "requestHeaders"))
        responseNames == NormalizedNames(ConfiguredHeaders(p, "response", "responseHeaders"))
    IN /\ removeHeaders.requestDone =>
             /\ removeHeaders.request.RemoveHeaders = requestNames
             /\ \A n \in Range(removeHeaders.request.RemoveHeaders) :
                   n \in Range(responseNames) => n \in Range(requestNames)
       /\ removeHeaders.responseDone =>
             /\ removeHeaders.response.RemoveHeaders = responseNames
             /\ \A n \in Range(removeHeaders.response.RemoveHeaders) :
                   n \in Range(requestNames) => n \in Range(responseNames)

\* the nested request list wins over the legacy one, its names are
\* normalized, and the response phase removes the header of its own list only
C27_Witness ==
    /\ removeHeaders.requestDone /\ removeHeaders.responseDone
    /\ removeHeaders.params.request.t = "object"
    /\ removeHeaders.params.requestHeaders = LegacyList
    /\ removeHeaders.request.RemoveHeaders = << <<"x", "-", "a">>, <<"b">> >>
    /\ removeHeaders.response.RemoveHeaders = << <<"y">> >>

\* C28: in masking mode the request phase leaves an entry in the metadata
\* only when the outcome is transformed with the masked text: whenever the
\* entry is written the payload sent upstream carries the masked content; an
\* unchanged outcome, a failure outcome or a write-back that falls back to
\* the original payload goes with no entry written by the request.
C28_EntryOnlyWhenTransformed ==
    \A e \in Exch :
        (Masked(e) /\ req[e].wrote) =>
            /\ req[e].kind = "body"
            /\ req[e].body # payload[e]
            /\ req[e].body.text = req[e].modifiedContent

\* C30: no literal is empty. For every detector set that construction
\* accepts, a custom pattern that can match the empty string included, and
\* every content, every key of the map that masking builds is a non-empty
\* string, so the replacement pass never substitutes the empty string.
C30_NoEmptyLiteral ==
    \A e \in Exch :
        Masked(e) =>
            /\ \A l \in DOMAIN req[e].entry : l # <<>>
            /\ \A k \in 1..Len(req[e].originals) : req[e].originals[k] # <<>>
====
